---- MODULE Spec2Model ----
(***************************************************************************)
(* Model of the OvershootAnimator (src/src/boot.py, duplicated in          *)
(* src/src/boot_animation.py) and of the step scheduler that drives it:    *)
(* the main loop of boot.py, which restarts the sequence, and the main     *)
(* loop of boot_animation.py, which runs it once and hands over.           *)
(*                                                                         *)
(* Time is counted in milliseconds (time.monotonic() returns seconds).     *)
(* Floating point values (the overshoot point, the eased progress, the     *)
(* interpolated position) are kept in fixed point, Scale units per unit.   *)
(***************************************************************************)
EXTENDS Integers, Sequences, FiniteSets, TLC

\* ------------------------------------------------------------------------
\* Python values
\* ------------------------------------------------------------------------

\* None, and a value that is not None (an optional is a sequence of length <= 1)
None == <<>>
Some(v) == <<v>>
Val(o) == o[1]

\* one second of time.monotonic(), in the model's time unit
Second == 1000

\* fixed-point resolution of the float arithmetic
Scale == 1000

\* int(): truncation toward zero of the fixed-point quotient n / d  (d > 0)
Trunc(n, d) == IF n >= 0 THEN n \div d ELSE -((-n) \div d)

\* math.sqrt(n), as the largest integer whose square is <= n
RECURSIVE SqrtSearch(_, _, _)
SqrtSearch(n, lo, hi) ==
    IF lo >= hi THEN lo
    ELSE LET mid == (lo + hi + 1) \div 2
         IN  IF mid * mid <= n THEN SqrtSearch(n, mid, hi)
                               ELSE SqrtSearch(n, lo, mid - 1)

\* distance = math.sqrt(dx * dx + dy * dy), in 1/100 of a pixel
Distance(dx, dy) == SqrtSearch((dx * dx + dy * dy) * 10000, 0, 46340)

\* q ** 5 for a fixed-point q in 0..Scale
Pow5(q) == (((((q * q * q) \div Scale) * q) \div Scale) * q) \div (Scale * Scale)

RECURSIVE Root5Search(_, _, _)
Root5Search(r, lo, hi) ==
    IF lo >= hi THEN lo
    ELSE LET mid == (lo + hi + 1) \div 2
         IN  IF Pow5(mid) <= r THEN Root5Search(r, mid, hi)
                               ELSE Root5Search(r, lo, mid - 1)

\* eased ** 1.2 for a fixed-point eased in 0..Scale:  r * r ** (1/5)
Pow12(r) == (r * Root5Search(r, 0, Scale)) \div Scale

\* ------------------------------------------------------------------------
\* OvershootAnimator
\* ------------------------------------------------------------------------

\* OvershootAnimator.__init__: the fields of a new animator of element
NewAnimator(element) ==
    [ element                |-> element,
      pos_animating          |-> FALSE,
      start_time             |-> 0,
      start_x                |-> 0,
      start_y                |-> 0,
      target_x               |-> 0,
      target_y               |-> 0,
      overshoot_x            |-> 0,
      overshoot_y            |-> 0,
      duration               |-> 0,
      overshoot_pixels       |-> 0,
      eased_value            |-> None,
      cur_sprite_index       |-> None,
      last_sprite_frame_time |-> -Second,
      sprite_anim_start_time |-> -Second,
      sprite_anim_from_index |-> None,
      sprite_anim_to_index   |-> None,
      sprite_anim_delay      |-> None ]

\* animate_to, lines 77-79, with the time of the tween in flight kept
RecordStartPosition(self, element, _now) ==
    [self EXCEPT !.start_x = element.x,
                 !.start_y = element.y]

\* animate_to, lines 77-79: record starting position and time
RecordStart(self, element, _now) ==
    [self EXCEPT !.start_x = element.x,
                 !.start_y = element.y,
                 !.start_time = _now]

\* animate_to, lines 80-85, with start_sprite_anim_at taken for a clock value
ArmSpriteAtClock(self, _now, start_sprite_anim_at, sprite_delay, sprite_from_index, sprite_to_index) ==
    IF start_sprite_anim_at # None
    THEN [self EXCEPT !.sprite_anim_start_time = Val(start_sprite_anim_at),
                      !.sprite_anim_to_index = sprite_to_index,
                      !.sprite_anim_from_index = sprite_from_index,
                      !.cur_sprite_index = sprite_from_index,
                      !.sprite_anim_delay = sprite_delay]
    ELSE self

\* animate_to, lines 80-85, with the sprite sub-tween dropped by a call that
\* arms none
ArmSpriteOrDrop(self, _now, start_sprite_anim_at, sprite_delay, sprite_from_index, sprite_to_index) ==
    IF start_sprite_anim_at # None
    THEN [self EXCEPT !.sprite_anim_start_time = _now + Val(start_sprite_anim_at),
                      !.sprite_anim_to_index = sprite_to_index,
                      !.sprite_anim_from_index = sprite_from_index,
                      !.cur_sprite_index = sprite_from_index,
                      !.sprite_anim_delay = sprite_delay]
    ELSE [self EXCEPT !.cur_sprite_index = None]

\* animate_to, lines 80-85: arm the sprite sub-tween
ArmSprite(self, _now, start_sprite_anim_at, sprite_delay, sprite_from_index, sprite_to_index) ==
    IF start_sprite_anim_at # None
    THEN [self EXCEPT !.sprite_anim_start_time = _now + Val(start_sprite_anim_at),
                      !.sprite_anim_to_index = sprite_to_index,
                      !.sprite_anim_from_index = sprite_from_index,
                      !.cur_sprite_index = sprite_from_index,
                      !.sprite_anim_delay = sprite_delay]
    ELSE self

\* animate_to, lines 88-91: store target position and parameters
StoreTarget(self, target_x, target_y, duration, overshoot_pixels) ==
    [self EXCEPT !.target_x = target_x,
                 !.target_y = target_y,
                 !.duration = duration,
                 !.overshoot_pixels = overshoot_pixels]

\* animate_to, lines 103-113, with the target taken for the overshoot position
StartTweenAtTarget(self, dx, dy, distance, eased_value) ==
    [self EXCEPT !.overshoot_x = self.target_x * Scale,
                 !.overshoot_y = self.target_y * Scale,
                 !.eased_value = eased_value,
                 !.pos_animating = TRUE]

\* animate_to, lines 103-113: direction, overshoot position, start
StartTween(self, dx, dy, distance, eased_value) ==
    LET dir_x == Trunc(dx * Scale * 100, distance)
        dir_y == Trunc(dy * Scale * 100, distance)
    IN  [self EXCEPT !.overshoot_x = self.target_x * Scale + dir_x * self.overshoot_pixels,
                     !.overshoot_y = self.target_y * Scale + dir_y * self.overshoot_pixels,
                     !.eased_value = eased_value,
                     !.pos_animating = TRUE]

\* animate_to with the animation started before the distance is looked at
AnimateToStartsEarly(self, element, _now, target_x, target_y, duration, overshoot_pixels, start_sprite_anim_at, sprite_delay, sprite_from_index, sprite_to_index, eased_value) ==
    LET s1 == RecordStart(self, element, _now)
        s2 == ArmSprite(s1, _now, start_sprite_anim_at, sprite_delay,
                        sprite_from_index, sprite_to_index)
        s3 == [StoreTarget(s2, target_x, target_y, duration, overshoot_pixels)
                  EXCEPT !.pos_animating = TRUE]
        dx == target_x - s3.start_x
        dy == target_y - s3.start_y
        distance == Distance(dx, dy)
    IN  IF distance <= 0
        THEN [self |-> s3, ret |-> FALSE]
        ELSE [self |-> StartTween(s3, dx, dy, distance, eased_value), ret |-> TRUE]

\* animate_to with the distance looked at before the sprite sub-tween is armed
AnimateToChecksFirst(self, element, _now, target_x, target_y, duration, overshoot_pixels, start_sprite_anim_at, sprite_delay, sprite_from_index, sprite_to_index, eased_value) ==
    LET s1 == RecordStart(self, element, _now)
        s3 == StoreTarget(s1, target_x, target_y, duration, overshoot_pixels)
        dx == target_x - s3.start_x
        dy == target_y - s3.start_y
        distance == Distance(dx, dy)
        s4 == ArmSprite(s3, _now, start_sprite_anim_at, sprite_delay,
                        sprite_from_index, sprite_to_index)
    IN  IF distance <= 0
        THEN [self |-> s3, ret |-> FALSE]
        ELSE [self |-> StartTween(s4, dx, dy, distance, eased_value), ret |-> TRUE]

\* animate_to that keeps the start of a position tween that is in flight
AnimateToKeepsStart(self, element, _now, target_x, target_y, duration, overshoot_pixels, start_sprite_anim_at, sprite_delay, sprite_from_index, sprite_to_index, eased_value) ==
    LET s1 == IF self.pos_animating THEN self ELSE RecordStart(self, element, _now)
        s2 == ArmSprite(s1, _now, start_sprite_anim_at, sprite_delay,
                        sprite_from_index, sprite_to_index)
        s3 == StoreTarget(s2, target_x, target_y, duration, overshoot_pixels)
        dx == target_x - s3.start_x
        dy == target_y - s3.start_y
        distance == Distance(dx, dy)
    IN  IF distance <= 0
        THEN [self |-> s3, ret |-> FALSE]
        ELSE [self |-> StartTween(s3, dx, dy, distance, eased_value), ret |-> TRUE]

\* OvershootAnimator.animate_to: the animator after the call and the value
\* returned
AnimateTo(self, element, _now, target_x, target_y, duration, overshoot_pixels, start_sprite_anim_at, sprite_delay, sprite_from_index, sprite_to_index, eased_value) ==
    LET s1 == RecordStart(self, element, _now)
        s2 == ArmSprite(s1, _now, start_sprite_anim_at, sprite_delay,
                        sprite_from_index, sprite_to_index)
        s3 == StoreTarget(s2, target_x, target_y, duration, overshoot_pixels)
        dx == target_x - s3.start_x
        dy == target_y - s3.start_y
        distance == Distance(dx, dy)
    IN  IF distance <= 0
        THEN [self |-> s3, ret |-> FALSE]
        ELSE [self |-> StartTween(s3, dx, dy, distance, eased_value), ret |-> TRUE]

\* sprite_anim_tick, lines 127-132: all sprite fields back to inactive
ClearSprite(self) ==
    [self EXCEPT !.cur_sprite_index = None,
                 !.sprite_anim_from_index = None,
                 !.sprite_anim_to_index = None,
                 !.sprite_anim_delay = None,
                 !.last_sprite_frame_time = -Second,
                 !.sprite_anim_start_time = -Second]

\* a frame write that waits for nothing
FrameDueAlways(self, cur_time) == TRUE

\* sprite_anim_tick, line 117: enough time since the last frame write
FrameDue(self, cur_time) ==
    cur_time >= self.last_sprite_frame_time + Val(self.sprite_anim_delay)

\* sprite_anim_tick with the index incremented before it is written
SpriteAnimTickIncrementsFirst(self, element, cur_time) ==
    IF FrameDue(self, cur_time)
    THEN LET idx == Val(self.cur_sprite_index) + 1
             e1  == [element EXCEPT !.frame = idx]
             s1  == [self EXCEPT !.last_sprite_frame_time = cur_time,
                                 !.cur_sprite_index = Some(idx)]
         IN  IF idx > Val(self.sprite_anim_to_index)
             THEN [self |-> ClearSprite(s1), element |-> e1, ret |-> FALSE,
                   wrote |-> Some(idx)]
             ELSE [self |-> s1, element |-> e1, ret |-> TRUE, wrote |-> Some(idx)]
    ELSE [self |-> self, element |-> element, ret |-> TRUE, wrote |-> None]

\* OvershootAnimator.sprite_anim_tick
SpriteAnimTick(self, element, cur_time) ==
    IF FrameDue(self, cur_time)
    THEN LET idx == Val(self.cur_sprite_index)
             e1  == [element EXCEPT !.frame = idx]
             s1  == [self EXCEPT !.last_sprite_frame_time = cur_time,
                                 !.cur_sprite_index = Some(idx + 1)]
         IN  IF idx + 1 > Val(self.sprite_anim_to_index)
             THEN [self |-> ClearSprite(s1), element |-> e1, ret |-> FALSE,
                   wrote |-> Some(idx)]
             ELSE [self |-> s1, element |-> e1, ret |-> TRUE, wrote |-> Some(idx)]
    ELSE [self |-> self, element |-> element, ret |-> TRUE, wrote |-> None]

\* tick, lines 179-201: the eased position (fixed point) at elapsed / duration < 1
EasedPosition(self, elapsed) ==
    LET sx == self.start_x * Scale
        sy == self.start_y * Scale
        tx == self.target_x * Scale
        ty == self.target_y * Scale
    IN  IF self.overshoot_pixels > 0
        THEN IF 10 * elapsed < 7 * self.duration
             THEN LET eased == Pow12((10 * elapsed * Scale) \div (7 * self.duration))
                  IN  << sx + Trunc((self.overshoot_x - sx) * eased, Scale),
                         sy + Trunc((self.overshoot_y - sy) * eased, Scale) >>
             ELSE LET sub_progress == ((10 * elapsed - 7 * self.duration) * Scale)
                                          \div (3 * self.duration)
                      inv == Scale - sub_progress
                      eased == Scale - (inv * inv) \div Scale
                  IN  << self.overshoot_x + Trunc((tx - self.overshoot_x) * eased, Scale),
                         self.overshoot_y + Trunc((ty - self.overshoot_y) * eased, Scale) >>
        ELSE LET progress == (elapsed * Scale) \div self.duration
                 inv == Scale - progress
                 inv2 == (inv * inv) \div Scale
                 eased == IF self.eased_value = None
                          THEN Scale - (inv2 * inv2) \div Scale
                          ELSE progress \div Val(self.eased_value)
             IN  << sx + Trunc((tx - sx) * eased, Scale),
                    sy + Trunc((ty - sy) * eased, Scale) >>

\* tick, lines 157-209, with the clock taken for the elapsed time
PositionTickByClock(self, element, _now, still_sprite_animating, wrote) ==
    LET elapsed == _now
    IN  IF self.duration = 0
        THEN \* elapsed / self.duration raises ZeroDivisionError
             [self |-> self, element |-> element, ret |-> FALSE,
              wrote |-> wrote, raised |-> TRUE]
        ELSE IF elapsed >= self.duration
        THEN [self |-> [self EXCEPT !.pos_animating = FALSE],
              element |-> [element EXCEPT !.x = self.target_x, !.y = self.target_y],
              ret |-> still_sprite_animating,
              wrote |-> wrote, raised |-> FALSE]
        ELSE LET cur == EasedPosition(self, elapsed)
             IN  [self |-> self,
                  element |-> [element EXCEPT !.x = Trunc(cur[1], Scale),
                                              !.y = Trunc(cur[2], Scale)],
                  ret |-> TRUE, wrote |-> wrote, raised |-> FALSE]

\* tick, lines 157-209, returning True from the call that snaps to the target
PositionTickReportsSnap(self, element, _now, still_sprite_animating, wrote) ==
    LET elapsed == _now - self.start_time
    IN  IF self.duration = 0
        THEN \* elapsed / self.duration raises ZeroDivisionError
             [self |-> self, element |-> element, ret |-> FALSE,
              wrote |-> wrote, raised |-> TRUE]
        ELSE IF elapsed >= self.duration
        THEN [self |-> [self EXCEPT !.pos_animating = FALSE],
              element |-> [element EXCEPT !.x = self.target_x, !.y = self.target_y],
              ret |-> TRUE,
              wrote |-> wrote, raised |-> FALSE]
        ELSE LET cur == EasedPosition(self, elapsed)
             IN  [self |-> self,
                  element |-> [element EXCEPT !.x = Trunc(cur[1], Scale),
                                              !.y = Trunc(cur[2], Scale)],
                  ret |-> TRUE, wrote |-> wrote, raised |-> FALSE]

\* tick, lines 161-209: the position tween, after the sprite sub-tween
PositionTick(self, element, _now, still_sprite_animating, wrote) ==
    LET elapsed == _now - self.start_time
    IN  IF self.duration = 0
        THEN \* elapsed / self.duration raises ZeroDivisionError
             [self |-> self, element |-> element, ret |-> FALSE,
              wrote |-> wrote, raised |-> TRUE]
        ELSE IF elapsed >= self.duration
        THEN [self |-> [self EXCEPT !.pos_animating = FALSE],
              element |-> [element EXCEPT !.x = self.target_x, !.y = self.target_y],
              ret |-> still_sprite_animating,
              wrote |-> wrote, raised |-> FALSE]
        ELSE IF self.overshoot_pixels <= 0 /\ self.eased_value = Some(0)
        THEN \* progress / self.eased_value raises ZeroDivisionError
             [self |-> self, element |-> element, ret |-> FALSE,
              wrote |-> wrote, raised |-> TRUE]
        ELSE LET cur == EasedPosition(self, elapsed)
             IN  [self |-> self,
                  element |-> [element EXCEPT !.x = Trunc(cur[1], Scale),
                                              !.y = Trunc(cur[2], Scale)],
                  ret |-> TRUE, wrote |-> wrote, raised |-> FALSE]

\* tick with the position tween run in the call that ends the sprite
\* sub-tween too
TickFallsThrough(self, element, _now) ==
    IF self.cur_sprite_index # None
    THEN IF _now >= self.sprite_anim_start_time
         THEN LET r == SpriteAnimTick(self, element, _now)
              IN  PositionTick(r.self, r.element, _now, r.ret, r.wrote)
         ELSE PositionTick(self, element, _now, FALSE, None)
    ELSE IF ~self.pos_animating
         THEN [self |-> self, element |-> element, ret |-> FALSE,
               wrote |-> None, raised |-> FALSE]
         ELSE PositionTick(self, element, _now, FALSE, None)

\* tick without the return for an animator that is idle
TickWithoutIdleReturn(self, element, _now) ==
    IF self.cur_sprite_index # None
    THEN IF _now >= self.sprite_anim_start_time
         THEN LET r == SpriteAnimTick(self, element, _now)
              IN  IF ~r.ret
                  THEN [self |-> r.self, element |-> r.element, ret |-> FALSE,
                        wrote |-> r.wrote, raised |-> FALSE]
                  ELSE PositionTick(r.self, r.element, _now, TRUE, r.wrote)
         ELSE PositionTick(self, element, _now, FALSE, None)
    ELSE PositionTick(self, element, _now, FALSE, None)

\* OvershootAnimator.tick: the animator and the element after the call, the
\* value returned, the frame index written to the element (an optional) and
\* whether the call raised
Tick(self, element, _now) ==
    IF self.cur_sprite_index # None
    THEN IF _now >= self.sprite_anim_start_time
         THEN LET r == SpriteAnimTick(self, element, _now)
              IN  IF ~r.ret
                  THEN [self |-> r.self, element |-> r.element, ret |-> FALSE,
                        wrote |-> r.wrote, raised |-> FALSE]
                  ELSE PositionTick(r.self, r.element, _now, TRUE, r.wrote)
         ELSE PositionTick(self, element, _now, FALSE, None)
    ELSE IF ~self.pos_animating
         THEN [self |-> self, element |-> element, ret |-> FALSE,
               wrote |-> None, raised |-> FALSE]
         ELSE PositionTick(self, element, _now, FALSE, None)

\* OvershootAnimator.cancel
Cancel(self) == [self EXCEPT !.pos_animating = FALSE]

\* OvershootAnimator.is_animating
IsAnimating(self) == self.pos_animating

\* ------------------------------------------------------------------------
\* The step table of boot.py and of boot_animation.py
\* ------------------------------------------------------------------------

\* the two programs that run the step table
Programs == { "boot.py", "boot_animation.py" }

\* where the apple waits above the screen: boot.py line 336,
\* boot_animation.py line 282
AppleOffscreenLoc(prog) == IF prog = "boot.py" THEN <<0, -107>> ELSE <<0, -207>>

\* the frames of the second blink: boot.py line 704, boot_animation.py line 620
BlinkAgainRange(prog) == IF prog = "boot.py" THEN <<13, 18>> ELSE <<12, 18>>

\* 1 / n seconds, to the nearest time unit
PerSecond(n) == (2 * Second + n) \div (2 * n)

\* a number of seconds given in thousandths
Seconds(thousandths) == (thousandths * Second) \div 1000

\* display.height of supervisor.runtime.display, the 640 x 480 display of the
\* board
DisplayHeight == 480

default_sprite_delay == PerSecond(35)
letters_x_start == 83
letters_y_start == DisplayHeight

\* F of the value of v, with v evaluated once (a statement of the program
\* reads the value an earlier statement left, it does not run that statement
\* again)
ByValue(v, F(_)) == CHOOSE r \in { F(x) : x \in { v } } : TRUE

\* Python's list indexing (from 0), list.insert and list.append
At(list, i) == list[i + 1]
Insert(list, i, x) == SubSeq(list, 1, i) \o << x >> \o SubSeq(list, i + 1, Len(list))

\* an "animation_step" dict of the table, before it is given its animator
AnimationStep(tilegrid, offscreen_loc, onscreen_loc, move_duration, overshoot_pixels, eased_value, sprite_anim_range, sprite_delay, step_start_time, sprite_anim_start) ==
    [ type |-> "animation_step", tilegrid |-> tilegrid,
      offscreen_loc |-> offscreen_loc, onscreen_loc |-> onscreen_loc,
      move_duration |-> move_duration, overshoot_pixels |-> overshoot_pixels,
      eased_value |-> eased_value, sprite_anim_range |-> sprite_anim_range,
      sprite_delay |-> sprite_delay, start_time |-> step_start_time,
      sprite_anim_start |-> sprite_anim_start ]

\* a "change_palette" dict of the table
ChangePalette(step_start_time, step_color) ==
    [ type |-> "change_palette", start_time |-> step_start_time, color |-> step_color ]

\* the literal list coordinator["steps"]: apple, F, R, slide, U, I, T, J, A, M
LiteralStepsOf(prog) ==
    << AnimationStep("apple", AppleOffscreenLoc(prog), <<0, 21>>, Seconds(450), 1, None,
                     Some(<<0, 11>>), Some(PerSecond(42)), Seconds(0), Some(Seconds(347))),
       AnimationStep("f", <<letters_x_start, letters_y_start>>, <<letters_x_start, 67>>,
                     Seconds(450), 20, None, Some(<<0, 15>>), Some(default_sprite_delay),
                     Seconds(450), Some(Seconds(347))),
       AnimationStep("r", <<letters_x_start + 32 + 3 - 1, letters_y_start>>,
                     <<letters_x_start + 32 + 3 - 1, 67>>,
                     Seconds(450), 20, None, Some(<<0, 15>>), Some(default_sprite_delay),
                     Seconds(900), Some(Seconds(347))),
       AnimationStep("sliding_group", <<100, 0>>, <<30, 0>>,
                     Seconds(1750), 0, Some(1), None, None, Seconds(900), None),
       AnimationStep("u", <<letters_x_start + (32 + 3) * 2 - 2, letters_y_start>>,
                     <<letters_x_start + (32 + 3) * 2 - 2, 67>>,
                     Seconds(450), 20, None, Some(<<0, 15>>), Some(default_sprite_delay),
                     Seconds(1350), Some(Seconds(347))),
       AnimationStep("i", <<letters_x_start + (32 + 3) * 3 - 3, letters_y_start>>,
                     <<letters_x_start + (32 + 3) * 3 - 3, 67>>,
                     Seconds(450), 20, None, Some(<<0, 15>>), Some(default_sprite_delay),
                     Seconds(1800), Some(Seconds(347))),
       AnimationStep("t", <<letters_x_start + (32 + 3) * 3 + 16 + 3 - 4, letters_y_start>>,
                     <<letters_x_start + (32 + 3) * 3 + 16 + 3 - 4, 67>>,
                     Seconds(450), 20, None, Some(<<0, 15>>), Some(default_sprite_delay),
                     Seconds(2250), Some(Seconds(347))),
       AnimationStep("j", <<letters_x_start, letters_y_start>>, <<letters_x_start, 50 + 39>>,
                     Seconds(450), 4, None, Some(<<0, 15>>), Some(default_sprite_delay),
                     Seconds(2700), Some(Seconds(400))),
       AnimationStep("a", <<letters_x_start + 32 + 3 - 1, letters_y_start>>,
                     <<letters_x_start + 32 + 3 - 1, 50 + 39>>,
                     Seconds(450), 4, None, Some(<<0, 15>>), Some(default_sprite_delay),
                     Seconds(3150), Some(Seconds(400))),
       AnimationStep("m", <<letters_x_start + 32 + 3 + 32 + 2 - 1, letters_y_start>>,
                     <<letters_x_start + 32 + 3 + 32 + 2 - 1, 50 + 39>>,
                     Seconds(450), 4, None, Some(<<0, 15>>), Some(default_sprite_delay),
                     Seconds(3600), Some(Seconds(400))) >>

LiteralSteps == LiteralStepsOf("boot.py")

\* the loop at lines 497-510: every step of the literal list gets an animator
\* of its own tilegrid (animators are named by the index of the step that
\* made them)
WithAnimators(list) ==
    [ k \in 1..Len(list) |-> [animator |-> k - 1] @@ list[k] ]

\* a step that reuses the tilegrid and the animator of the step now at index
\* of in list
Reusing(list, of, offscreen_loc, onscreen_loc, move_duration, overshoot_pixels, sprite_anim_range, sprite_delay, step_start_time, sprite_anim_start) ==
    [animator |-> At(list, of).animator] @@
    AnimationStep(At(list, of).tilegrid, offscreen_loc, onscreen_loc, move_duration,
                  overshoot_pixels, None, sprite_anim_range, sprite_delay,
                  step_start_time, sprite_anim_start)

\* a bounce that starts a tenth of a second after the step whose animator it
\* reuses
BounceAtOnce(list, of, x, step_start_time) ==
    Reusing(list, of, <<x, letters_y_start>>, <<x, 52>>, Seconds(300), 22,
            Some(<<19, 27>>), Some(PerSecond(22)), At(list, of).start_time + Seconds(100),
            Some(Seconds(150)))

\* a bounce of a letter: lines 512-613
Bounce(list, of, x, step_start_time) ==
    Reusing(list, of, <<x, letters_y_start>>, <<x, 52>>, Seconds(300), 22,
            Some(<<19, 27>>), Some(PerSecond(22)), step_start_time, Some(Seconds(150)))

\* a blink of the apple's eyes: lines 674-711
Blink(list, offscreen_loc, sprite_anim_range, step_start_time) ==
    Reusing(list, 0, offscreen_loc, <<0, 21>>, Seconds(10), 0,
            Some(sprite_anim_range), Some(PerSecond(32)), step_start_time, Some(Seconds(0)))

\* an insert of a bounce at the front of the list, whatever the index given
InsertBounceInFront(list, i, of, x, step_start_time) ==
    ByValue(list, LAMBDA l : Insert(l, 0, Bounce(l, of, x, step_start_time)))

\* coordinator["steps"].insert(i, ...) of a bounce: lines 512-553
InsertBounce(list, i, of, x, step_start_time) ==
    ByValue(list, LAMBDA l : Insert(l, i, Bounce(l, of, x, step_start_time)))

\* coordinator["steps"].append(...) of a bounce: lines 554-613
AppendBounce(list, of, x, step_start_time) ==
    ByValue(list, LAMBDA l : Append(l, Bounce(l, of, x, step_start_time)))

\* coordinator["steps"].append(...) of a blink: lines 674-711
AppendBlink(list, offscreen_loc, sprite_anim_range, step_start_time) ==
    ByValue(list, LAMBDA l : Append(l, Blink(l, offscreen_loc, sprite_anim_range,
                                             step_start_time)))

\* the list after the bounces of F, R, U, I and T have been added
WithBounces(prog) ==
    AppendBounce(
     AppendBounce(
      AppendBounce(
       InsertBounce(
        InsertBounce(WithAnimators(LiteralStepsOf(prog)), 8, 1, letters_x_start, Seconds(3000)),
        10, 2, letters_x_start + 32 + 3 - 1, Seconds(3450)),
       4, letters_x_start + (32 + 3) * 2 - 2, Seconds(3900)),
      5, letters_x_start + (32 + 3) * 3 - 3, Seconds(4000)),
     6, letters_x_start + (32 + 3) * 3 + 16 + 3 - 4, Seconds(4100))

\* the six colors the palettes are swept with, a quarter of a second apart
WithPalettes(prog) ==
    WithBounces(prog) \o << ChangePalette(Seconds(4750), 16711680),
                      ChangePalette(Seconds(5000), 16776960),
                      ChangePalette(Seconds(5250), 65535),
                      ChangePalette(Seconds(5500), 16711935),
                      ChangePalette(Seconds(5750), 255),
                      ChangePalette(Seconds(6000), 65280) >>

\* coordinator["steps"] as the main loop finds it
StepsOf(prog) ==
    AppendBlink(AppendBlink(WithPalettes(prog), AppleOffscreenLoc(prog),
                            <<12, 27>>, Seconds(6650)),
                AppleOffscreenLoc(prog), BlinkAgainRange(prog), Seconds(8750))

\* the table of boot.py and the table of boot_animation.py
Steps == StepsOf("boot.py")
BootAnimationSteps == StepsOf("boot_animation.py")

\* the indices of the steps, the animators and the elements of the table
StepIndices == 0..(Len(Steps) - 1)
AnimatorIds == 0..(Len(LiteralSteps) - 1)
ElementIds == { LiteralSteps[k].tilegrid : k \in 1..Len(LiteralSteps) }

\* ------------------------------------------------------------------------
\* State
\* ------------------------------------------------------------------------

VARIABLES
    now,          \* the value time.monotonic() returns
    animators,    \* the OvershootAnimator objects, by the index of the step that made them
    elements,     \* the animated elements: x, y and tile 0 (the sprite frame)
    last,         \* the last step taken: the operation and the value it returned
    call,         \* the arguments and the returned value of the last animate_to call
    frame_log,    \* the frame indices written since the sprite sub-tween was last armed
    calls,        \* the number of animate_to calls made
    start_time,   \* the main loop's start_time: the origin of the sequence
    started,      \* step["started"] of every step of the table
    still_going,  \* the main loop's still_going at the end of the last frame
    color,        \* the color the sprite palettes were last swept with
    frame_interval,   \* the time one iteration of the main loop takes
    last_completion,  \* the time of the frame in which the sequence last completed
    pc,               \* the index of the step the for loop of the main loop is at
    program,          \* the program that runs: boot.py or boot_animation.py
    phase,            \* where the program is: "loop", "audio" or "reloaded"
    tlv320_present,   \* boot_animation.py found the audio codec
    audio_playing,    \* fjPeriphs.audio.playing
    next_code_file,   \* the file given to supervisor.set_next_code_file
    log,              \* the calls the main loop has made in the frame, in order
    fired             \* how many times each step's action was invoked in this pass

\* what the calls on the single animator are observed through
call_vars == << last, call, frame_log, calls >>

\* the state of the main loop
loop_vars == << start_time, started, still_going, color, frame_interval, last_completion, pc,
               program, phase, tlv320_present, audio_playing, next_code_file, log, fired >>

vars == << now, animators, elements, last, call, frame_log, calls,
           start_time, started, still_going, color, frame_interval, last_completion, pc,
           program, phase, tlv320_present, audio_playing, next_code_file, log, fired >>

\* ------------------------------------------------------------------------
\* One animator driven by arbitrary calls
\* ------------------------------------------------------------------------

\* bound of the single-animator specification: the clock stops here
MaxTime == 14

\* the arguments the calls are drawn from
Targets == { <<0, 0>>, <<6, 8>> }
Durations == { 4, 10 }
OvershootPixels == { 0, 5 }
SpriteStarts == { None, Some(0), Some(5) }
SpriteRanges == { <<2, 5>> }
SpriteDelays == { 2 }
EasedValues == { None, Some(1) }

\* the animator under test and its element
A == animators[0]
E == elements["tg"]

Init ==
    /\ now = 0
    /\ animators = [ i \in {0} |-> NewAnimator("tg") ]
    /\ \E p \in Targets : elements = [ e \in {"tg"} |-> [x |-> p[1], y |-> p[2], frame |-> 0] ]
    /\ last = [op |-> "init", ret |-> FALSE, raised |-> FALSE]
    /\ call = [target_x |-> 0, target_y |-> 0, duration |-> 0, overshoot_pixels |-> 0,
               start_sprite_anim_at |-> None, sprite_delay |-> None,
               sprite_from_index |-> None, sprite_to_index |-> None,
               eased_value |-> None, at |-> 0, ret |-> FALSE]
    /\ frame_log = << >>
    /\ calls = 0
    /\ start_time = 0
    /\ started = << >>
    /\ still_going = TRUE
    /\ color = 0
    /\ frame_interval = 0
    /\ last_completion = 0
    /\ pc = 0
    /\ program = "boot.py"
    /\ phase = "loop"
    /\ tlv320_present = FALSE
    /\ audio_playing = FALSE
    /\ next_code_file = None
    /\ log = << >>
    /\ fired = << >>

\* time passes between two calls (the clock's origin is arbitrary: the first
\* call is made at time 0)
Advance ==
    /\ calls > 0
    /\ now < MaxTime
    /\ now' = now + 1
    /\ last' = [op |-> "advance", ret |-> FALSE, raised |-> FALSE]
    /\ UNCHANGED << animators, elements, call, frame_log, calls, loop_vars >>

\* the first call of animate_to, on a new animator
AnimateToCall ==
    /\ calls = 0
    /\ \E t \in Targets, d \in Durations, p \in OvershootPixels, s \in SpriteStarts,
          r \in SpriteRanges, sd \in SpriteDelays, ev \in EasedValues :
          LET res == AnimateTo(A, E, now, t[1], t[2], d, p, s, Some(sd),
                               Some(r[1]), Some(r[2]), ev)
          IN  /\ animators' = [animators EXCEPT ![0] = res.self]
              /\ last' = [op |-> "animate_to", ret |-> res.ret, raised |-> FALSE]
              /\ call' = [target_x |-> t[1], target_y |-> t[2], duration |-> d,
                          overshoot_pixels |-> p, start_sprite_anim_at |-> s,
                          sprite_delay |-> Some(sd), sprite_from_index |-> Some(r[1]),
                          sprite_to_index |-> Some(r[2]), eased_value |-> ev,
                          at |-> now, ret |-> res.ret]
              /\ frame_log' = IF s # None THEN << >> ELSE frame_log
    /\ calls' = calls + 1
    /\ UNCHANGED << now, elements, loop_vars >>

\* a call of tick
TickCall ==
    /\ LET res == Tick(A, E, now)
       IN  /\ animators' = [animators EXCEPT ![0] = res.self]
           /\ elements' = [elements EXCEPT !["tg"] = res.element]
           /\ last' = [op |-> "tick", ret |-> res.ret, raised |-> res.raised]
           /\ frame_log' = IF res.wrote # None THEN Append(frame_log, Val(res.wrote))
                                              ELSE frame_log
    /\ UNCHANGED << now, call, calls, loop_vars >>

\* a call of cancel
CancelCall ==
    /\ animators' = [animators EXCEPT ![0] = Cancel(A)]
    /\ last' = [op |-> "cancel", ret |-> FALSE, raised |-> FALSE]
    /\ UNCHANGED << now, elements, call, frame_log, calls, loop_vars >>

Next == Advance \/ AnimateToCall \/ TickCall \/ CancelCall

Spec == Init /\ [][Next]_vars

\* ------------------------------------------------------------------------
\* The main loop of boot.py and of boot_animation.py
\* ------------------------------------------------------------------------

\* the time one iteration of the main loop takes, in milliseconds; it is chosen
\* when the loop is entered and again at every restart of the sequence
FrameIntervals == { 40, 50, 100, 250 }

\* the state the body of the for loop works on
LoopState(a, e, s, g, c, l, f) ==
    [animators |-> a, elements |-> e, started |-> s, still_going |-> g, color |-> c,
     log |-> l, fired |-> f]

\* where a call is made that no step of the for loop makes: after the for
\* loop (line 762), in the restart block (lines 764-778)
AfterLoop == -1
RestartBlock == -2

\* a call the main loop makes: the step of the for loop that makes it (or
\* AfterLoop, RestartBlock) and the arguments that matter
Called(op, i, args) == [op |-> op, step |-> i, args |-> args]

\* color_sweep_all that leaves every display.refresh() to its caller
SweepRefreshesNone(len, refresh_during) == 0

\* lines 263-287: color_sweep_all as the main loop sees it
ColorSweepAll(i, c, delay, refresh_during) ==
    Called("color_sweep_all", i, << c, delay, refresh_during >>)

\* lines 266, 283-287: the display.refresh() calls one color_sweep_all makes
\* for a palette of len entries: one for every i of range(1, len) that 6
\* divides when refresh_during, and the one of line 287
SweepRefreshes(len, refresh_during) ==
    (IF refresh_during THEN Cardinality({ i \in 1..(len - 1) : i % 6 = 0 }) ELSE 0) + 1

\* lines 734-751: the action of a step that becomes started
StartStep(step, i, st, _now) ==
    IF step.type = "animation_step"
    THEN LET self == st.animators[step.animator]
             res  == IF step.sprite_anim_range # None
                     THEN AnimateTo(self, st.elements[self.element], _now,
                                    step.onscreen_loc[1], step.onscreen_loc[2],
                                    step.move_duration, step.overshoot_pixels,
                                    step.sprite_anim_start, step.sprite_delay,
                                    Some(Val(step.sprite_anim_range)[1]),
                                    Some(Val(step.sprite_anim_range)[2]),
                                    step.eased_value)
                     ELSE AnimateTo(self, st.elements[self.element], _now,
                                    step.onscreen_loc[1], step.onscreen_loc[2],
                                    step.move_duration, step.overshoot_pixels,
                                    None, Some(PerSecond(60)), None, None,
                                    step.eased_value)
         IN  [st EXCEPT !.animators[step.animator] = res.self,
                        !.log = Append(@, Called("animate_to", i, << >>)),
                        !.fired[i + 1] = @ + 1]
    ELSE IF step.type = "change_palette"
    THEN [st EXCEPT !.color = step.color,
                    !.log = Append(@, IF program = "boot.py"
                                      THEN ColorSweepAll(i, step.color, 0, TRUE)
                                      ELSE Called("pixel_shader", i, << step.color >>)),
                    !.fired[i + 1] = @ + 1]
    ELSE st

\* the tick of a step that is due, for a loop that ticks an animator only
\* the first time a step of the frame refers to it
TickStepOncePerAnimator(steps, step, i, st, _now) ==
    IF "animator" \in DOMAIN step
    THEN IF \E k \in DOMAIN st.log :
                st.log[k].op = "tick" /\ st.log[k].args = << step.animator >>
         THEN st
         ELSE LET self == st.animators[step.animator]
                  res  == Tick(self, st.elements[self.element], _now)
              IN  [st EXCEPT !.animators[step.animator] = res.self,
                             !.elements[self.element] = res.element,
                             !.still_going = IF i = Len(steps) - 1 THEN res.ret ELSE @,
                             !.log = Append(@, Called("tick", i, << step.animator >>))]
    ELSE [st EXCEPT !.still_going = IF i = Len(steps) - 1 THEN FALSE ELSE @]

\* the tick of a step that is due, for a loop that takes the value returned
\* through any step for the still_going of the frame
TickStepOfAnyStep(steps, step, i, st, _now) ==
    IF "animator" \in DOMAIN step
    THEN LET self == st.animators[step.animator]
             res  == Tick(self, st.elements[self.element], _now)
         IN  [st EXCEPT !.animators[step.animator] = res.self,
                        !.elements[self.element] = res.element,
                        !.still_going = res.ret,
                        !.log = Append(@, Called("tick", i, << step.animator >>))]
    ELSE [st EXCEPT !.still_going = FALSE]

\* lines 753-760: the tick of a step that is due
TickStep(steps, step, i, st, _now) ==
    IF "animator" \in DOMAIN step
    THEN LET self == st.animators[step.animator]
             res  == Tick(self, st.elements[self.element], _now)
         IN  [st EXCEPT !.animators[step.animator] = res.self,
                        !.elements[self.element] = res.element,
                        !.still_going = IF i = Len(steps) - 1 THEN res.ret ELSE @,
                        !.log = Append(@, Called("tick", i, << step.animator >>))]
    ELSE [st EXCEPT !.still_going = IF i = Len(steps) - 1 THEN FALSE ELSE @]

\* a step that is due only once the clock is past its start_time
DueOnlyAfter(step, _now, origin) == _now - origin > step.start_time

\* line 731: the step is due
Due(step, _now, origin) == _now - origin >= step.start_time

\* the body of the for loop if the loop went through the list from its end
StepBodyBackwards(steps, i, st, _now, origin) ==
    LET j    == Len(steps) - 1 - i
        step == At(steps, j)
    IN  IF Due(step, _now, origin)
        THEN TickStep(steps, step, j,
                      IF ~st.started[j + 1]
                      THEN StartStep(step, j, [st EXCEPT !.started[j + 1] = TRUE], _now)
                      ELSE st,
                      _now)
        ELSE st

\* the body of the for loop if the tick of a step did not wait for the step
\* to be due
StepBodyTicksAlways(steps, i, st, _now, origin) ==
    LET step == At(steps, i)
    IN  TickStep(steps, step, i,
                 IF Due(step, _now, origin) /\ ~st.started[i + 1]
                 THEN StartStep(step, i, [st EXCEPT !.started[i + 1] = TRUE], _now)
                 ELSE st,
                 _now)

\* lines 731-760: the body of the for loop for the step at index i
StepBody(steps, i, st, _now, origin) ==
    LET step == At(steps, i)
    IN  IF Due(step, _now, origin)
        THEN TickStep(steps, step, i,
                      IF ~st.started[i + 1]
                      THEN StartStep(step, i, [st EXCEPT !.started[i + 1] = TRUE], _now)
                      ELSE st,
                      _now)
        ELSE st

\* lines 765-770: a step's element back at offscreen_loc (the loop passes the
\* state on from step to step)
RECURSIVE ResetElements(_, _)
ResetElements(i, e) ==
    IF i >= Len(Steps) THEN e
    ELSE LET step == At(Steps, i)
         IN  ResetElements(i + 1,
                 IF step.type = "animation_step"
                 THEN [e EXCEPT ![step.tilegrid].x = step.offscreen_loc[1],
                                ![step.tilegrid].y = step.offscreen_loc[2]]
                 ELSE e)

\* a restart that clears the started flag only where it moves a tilegrid
ResetStartedOfAnimationSteps(s) ==
    [ k \in 1..Len(Steps) |-> IF Steps[k].type = "animation_step" THEN FALSE ELSE s[k] ]

\* a restart that leaves the last step started
ResetStartedButLast(s) == [ k \in 1..Len(Steps) |-> k = Len(Steps) /\ s[k] ]

\* lines 765-770: step["started"] = False for every step
ResetStarted(s) == [ k \in 1..Len(Steps) |-> FALSE ]

\* a restart that does not sleep
NoSleep == Second - Second

\* line 775: time.sleep(2)
SleepTime == 2 * Second

\* a clock value read from the new origin of the sequence; the -1 second that
\* marks "never" in the animators stays what it is (clock values are only
\* compared with each other, so the model restarts its clock at each origin)
Rebase(t, origin) == IF t = -Second THEN t ELSE t - origin

RebaseAnimator(self, origin) ==
    [self EXCEPT !.start_time = Rebase(@, origin),
                 !.last_sprite_frame_time = Rebase(@, origin),
                 !.sprite_anim_start_time = Rebase(@, origin)]

\* coordinator["steps"] of the program that runs
Table == IF program = "boot.py" THEN Steps ELSE BootAnimationSteps

\* boot.py lines 497-510 and 723, boot_animation.py lines 22-35 and 630-633:
\* the state when the main loop is entered
SchedInit ==
    /\ program \in Programs
    /\ phase = "loop"
    /\ tlv320_present \in (IF program = "boot.py" THEN { FALSE } ELSE BOOLEAN)
    /\ audio_playing = tlv320_present
    /\ next_code_file = None
    /\ now = 0
    /\ start_time = 0
    /\ pc = 0
    /\ animators = [ k \in AnimatorIds |-> NewAnimator(At(LiteralSteps, k).tilegrid) ]
    /\ elements = [ e \in ElementIds |->
                      LET k == CHOOSE k \in AnimatorIds : At(LiteralSteps, k).tilegrid = e
                      IN  [x |-> At(LiteralStepsOf(program), k).offscreen_loc[1],
                           y |-> At(LiteralStepsOf(program), k).offscreen_loc[2],
                           frame |-> 0] ]
    /\ started = [ k \in 1..Len(Steps) |-> FALSE ]
    /\ still_going = TRUE
    /\ color = 16777215
    /\ frame_interval \in FrameIntervals
    /\ last_completion = 0
    /\ last = [op |-> "init", ret |-> FALSE, raised |-> FALSE]
    /\ call = [target_x |-> 0, target_y |-> 0, duration |-> 0, overshoot_pixels |-> 0,
               start_sprite_anim_at |-> None, sprite_delay |-> None,
               sprite_from_index |-> None, sprite_to_index |-> None,
               eased_value |-> None, at |-> 0, ret |-> FALSE]
    /\ frame_log = << >>
    /\ calls = 0
    /\ log = << >>
    /\ fired = [ k \in 1..Len(Steps) |-> 0 ]

\* what no step of the for loop changes
frame_vars == << now, start_time, frame_interval, last_completion, program, phase,
                 tlv320_present, audio_playing, next_code_file >>

\* what the end of a frame does not change
program_vars == << program, tlv320_present, audio_playing, next_code_file >>

\* lines 727-760: one pass through the body of the for loop, for the step at
\* index pc; still_going = True (line 727) is what the first step starts from,
\* and every step of a frame compares the one clock value read at line 726
RunStep ==
    /\ phase = "loop"
    /\ pc < Len(Table)
    /\ \E st \in { StepBody(Table, pc, LoopState(animators, elements, started,
                                                 IF pc = 0 THEN TRUE ELSE still_going,
                                                 color,
                                                 IF pc = 0 THEN << >> ELSE log, fired),
                            now, start_time) } :
           /\ log' = st.log
           /\ fired' = st.fired
           /\ animators' = st.animators
           /\ elements' = st.elements
           /\ started' = st.started
           /\ still_going' = st.still_going
           /\ color' = st.color
    /\ pc' = pc + 1
    /\ UNCHANGED << frame_vars, call_vars >>

\* lines 762-764: display.refresh() at the end of a frame in which the
\* sequence is still going; the next iteration reads the clock again
FrameContinue ==
    /\ phase = "loop"
    /\ still_going
    /\ pc = Len(Table)
    /\ now' = now + frame_interval
    /\ pc' = 0
    /\ log' = Append(log, Called("display.refresh", AfterLoop, << >>))
    /\ UNCHANGED << animators, elements, started, still_going, color, start_time,
                    frame_interval, last_completion, phase, fired, program_vars, call_vars >>

\* lines 764-778: the restart block; the clock is read for the new start_time
\* after the sleep
Restart(a, e, s, _now, took) ==
    LET origin == _now + took + SleepTime
    IN  [ animators |-> [ k \in DOMAIN a |-> RebaseAnimator(a[k], origin) ],
          elements |-> [ ResetElements(0, e) EXCEPT !["apple"].frame = 0 ],
          started |-> ResetStarted(s),
          color |-> 16777215,
          start_time |-> Rebase(origin, origin),
          last_completion |-> Rebase(_now, origin),
          fired |-> [ k \in DOMAIN s |-> 0 ] ]

\* boot.py lines 762-778: the end of a frame in which the last step's tick
\* reported completion: the sequence is restarted
FrameRestart ==
    /\ program = "boot.py"
    /\ phase = "loop"
    /\ ~still_going
    /\ pc = Len(Table)
    /\ \E r \in { Restart(animators, elements, started, now, frame_interval) } :
           /\ animators' = r.animators
           /\ elements' = r.elements
           /\ started' = r.started
           /\ color' = r.color
           /\ start_time' = r.start_time
           /\ last_completion' = r.last_completion
           /\ now' = r.start_time
           /\ fired' = r.fired
    /\ log' = log \o << Called("display.refresh", AfterLoop, << >>),
                        ColorSweepAll(RestartBlock, 16777215, 0, FALSE),
                        Called("display.refresh", RestartBlock, << >>) >>
    /\ pc' = 0
    /\ frame_interval' \in FrameIntervals
    /\ UNCHANGED << still_going, phase, program_vars, call_vars >>

\* boot_animation.py lines 675-678: display.refresh() at the end of a frame in which the last
\* step's tick reported completion: break
FrameBreak ==
    /\ program = "boot_animation.py"
    /\ phase = "loop"
    /\ ~still_going
    /\ pc = Len(Table)
    /\ phase' = "audio"
    /\ last_completion' = now
    /\ log' = Append(log, Called("display.refresh", AfterLoop, << >>))
    /\ UNCHANGED << now, animators, elements, started, still_going, color, start_time,
                    frame_interval, pc, fired, program_vars, call_vars >>

\* the playback started at boot_animation.py line 633 ends; the program reads
\* audio.playing only at lines 680-682, so playback that ended earlier is
\* read there as having ended
AudioEnds ==
    /\ phase = "audio"
    /\ audio_playing
    /\ audio_playing' = FALSE
    /\ UNCHANGED << now, animators, elements, started, still_going, color, start_time,
                    frame_interval, last_completion, pc, program, phase, tlv320_present,
                    next_code_file, log, fired, call_vars >>

\* a reload requested without a next code file set
HandOffWithoutNextFile ==
    /\ phase = "audio"
    /\ ~(tlv320_present /\ audio_playing)
    /\ phase' = "reloaded"
    /\ UNCHANGED << now, animators, elements, started, still_going, color, start_time,
                    frame_interval, last_completion, pc, program, tlv320_present,
                    audio_playing, next_code_file, log, fired, call_vars >>

\* boot_animation.py lines 680-685: past the wait for the audio,
\* supervisor.set_next_code_file("code.py") and supervisor.reload()
HandOff ==
    /\ phase = "audio"
    /\ ~(tlv320_present /\ audio_playing)
    /\ next_code_file' = Some("code.py")
    /\ phase' = "reloaded"
    /\ UNCHANGED << now, animators, elements, started, still_going, color, start_time,
                    frame_interval, last_completion, pc, program, tlv320_present,
                    audio_playing, log, fired, call_vars >>

SchedNext ==
    \/ RunStep
    \/ FrameContinue
    \/ FrameRestart
    \/ FrameBreak
    \/ AudioEnds
    \/ HandOff

SchedSpec == SchedInit /\ [][SchedNext]_vars

\* the for loop moves on to the next step; this is what every RunStep does to
\* pc, and RunStep can be taken wherever this can
ForLoopAdvances == phase = "loop" /\ pc < Len(Table) /\ pc' = pc + 1

\* the program keeps running: the for loop goes on to its next step, the frame
\* ends, and the audio that was started ends
FairSchedSpec ==
    /\ SchedSpec
    /\ WF_pc(ForLoopAdvances)
    /\ WF_vars(FrameContinue)
    /\ WF_vars(FrameRestart)
    /\ WF_vars(FrameBreak)
    /\ WF_vars(AudioEnds)
    /\ WF_vars(HandOff)

\* ------------------------------------------------------------------------
\* Properties of the animator
\* ------------------------------------------------------------------------

\* the animator has neither a position tween nor a sprite sub-tween
Idle(a) == ~a.pos_animating /\ a.cur_sprite_index = None

\* the entity is at the target of the last animate_to
AtTarget == E.x = A.target_x /\ E.y = A.target_y

\* the frame indices from, from + 1, ..., to - 1
Frames(from, to) == [ i \in 1..(to - from) |-> from + i - 1 ]

\* C1 (as claimed): while a position tween with duration d > 0 is in flight,
\* every tick sampled at elapsed time < d returns true, and the tick sampled
\* at elapsed time >= d clears pos_animating, leaves the entity at the target
\* and returns false, or true if the sprite sub-tween is still active.
C1_MonotonicCompletion ==
    [][ (last'.op = "tick" /\ A.pos_animating /\ A.duration > 0) =>
          IF now - A.start_time < A.duration
          THEN last'.ret = TRUE
          ELSE /\ ~A'.pos_animating
               /\ E'.x = A.target_x /\ E'.y = A.target_y
               /\ (last'.ret = TRUE => A'.cur_sprite_index # None) ]_vars

\* C2 (as claimed): tick returns false exactly when, after the call, the
\* position tween is inactive and no sprite sub-tween is armed.
C2_TickReportsProgress ==
    (last.op = "tick" /\ ~last.raised) => (last.ret = FALSE <=> Idle(A))

\* C3: animate_to called when the entity is already at the target returns
\* false and leaves pos_animating as it was.
C3_NoOpOnZeroDistance ==
    [][ (last'.op = "animate_to" /\ call'.target_x = E.x /\ call'.target_y = E.y) =>
          (last'.ret = FALSE /\ A'.pos_animating = A.pos_animating
                             /\ (Idle(A) => ~A'.pos_animating)) ]_vars

\* C3 witness: a zero-distance call has returned false on an animator whose
\* position tween is inactive
C3_Witness ==
    /\ last.op = "animate_to" /\ call.target_x = E.x /\ call.target_y = E.y
    /\ last.ret = FALSE /\ ~A.pos_animating

\* C4 (as claimed): a zero-distance animate_to on an idle animator leaves it
\* idle, whatever its arguments, and the tick that follows returns false.
C4_ZeroDistanceStartsNothing ==
    [][ /\ (last'.op = "animate_to" /\ call'.target_x = E.x /\ call'.target_y = E.y
              /\ Idle(A)) => Idle(A')
        /\ (last.op = "animate_to" /\ last.ret = FALSE /\ last'.op = "tick")
              => last'.ret = FALSE ]_vars

\* C4 (amended): a zero-distance animate_to on an idle animator starts no
\* position tween and returns false; without start_sprite_anim_at the animator
\* stays idle and the tick that follows returns false and moves nothing; with
\* start_sprite_anim_at the sprite sub-tween is armed at sprite_from_index.
C4_ZeroDistanceStartsNoPositionTween ==
    [][ /\ (last'.op = "animate_to" /\ call'.target_x = E.x /\ call'.target_y = E.y
              /\ Idle(A)) =>
              /\ last'.ret = FALSE
              /\ ~A'.pos_animating
              /\ IF call'.start_sprite_anim_at = None
                 THEN A'.cur_sprite_index = None
                 ELSE /\ A'.cur_sprite_index = call'.sprite_from_index
                      /\ A'.sprite_anim_start_time = now + Val(call'.start_sprite_anim_at)
        /\ (last.op = "animate_to" /\ last.ret = FALSE /\ last'.op = "tick"
              /\ call.start_sprite_anim_at = None /\ Idle(A))
              => (last'.ret = FALSE /\ elements' = elements /\ animators' = animators) ]_vars

\* C4 witness: a zero-distance call has armed the sprite sub-tween of an
\* animator that has no position tween
C4_Witness ==
    /\ last.op = "animate_to" /\ last.ret = FALSE
    /\ call.target_x = E.x /\ call.target_y = E.y
    /\ ~A.pos_animating /\ A.cur_sprite_index = Some(2)

\* C5 (as claimed): after an animate_to that returned false, no tick changes
\* the entity's x or y.
C5_ZeroDistanceNoMotion ==
    [][ (calls > 0 /\ call.ret = FALSE /\ last'.op = "tick") =>
          (E'.x = E.x /\ E'.y = E.y) ]_vars

\* C6: the frame indices written since the sprite sub-tween was armed from a to
\* b are a, a + 1, ... in this order, each once; the sub-tween is inactive
\* exactly when all of a..b are written; and a tick sampled at or after the
\* armed time, sprite_anim_delay or more after the last write, writes the next
\* index (so ticks every sprite_anim_delay from the armed time write a..b).
C6_SpriteFrameSequencing ==
    [][ /\ (calls' > 0 /\ call'.start_sprite_anim_at # None) =>
              IF A'.cur_sprite_index # None
              THEN frame_log' = Frames(Val(call'.sprite_from_index),
                                       Val(A'.cur_sprite_index))
              ELSE frame_log' = Frames(Val(call'.sprite_from_index),
                                       Val(call'.sprite_to_index) + 1)
        /\ (last'.op = "tick" /\ A.cur_sprite_index # None
              /\ now >= A.sprite_anim_start_time
              /\ now >= A.last_sprite_frame_time + Val(A.sprite_anim_delay))
              => /\ frame_log' = Append(frame_log, Val(A.cur_sprite_index))
                 /\ E'.frame = Val(A.cur_sprite_index) ]_vars

\* C6 witness: ticks every sprite_anim_delay from the armed time have written
\* 2, 3, 4, 5 and the sub-tween is inactive
C6_Witness ==
    /\ calls > 0 /\ call.start_sprite_anim_at # None
    /\ frame_log = << 2, 3, 4, 5 >>
    /\ A.cur_sprite_index = None
    /\ last.op = "tick"
    /\ now = call.at + Val(call.start_sprite_anim_at) + 3 * Val(call.sprite_delay)

\* C7: a tick sampled less than sprite_anim_delay after the last frame write
\* writes no frame and does not increment cur_sprite_index.
C7_SpritePacing ==
    [][ (last'.op = "tick" /\ A.cur_sprite_index # None
           /\ now < A.last_sprite_frame_time + Val(A.sprite_anim_delay)) =>
          /\ frame_log' = frame_log
          /\ E'.frame = E.frame
          /\ A'.cur_sprite_index = A.cur_sprite_index
          /\ A'.last_sprite_frame_time = A.last_sprite_frame_time ]_vars

\* C7 witness: a tick sampled after the last frame write and less than
\* sprite_anim_delay after it has left the sprite index alone
C7_Witness ==
    /\ last.op = "tick" /\ A.cur_sprite_index = Some(3)
    /\ frame_log = << 2 >>
    /\ now > A.last_sprite_frame_time
    /\ now < A.last_sprite_frame_time + Val(A.sprite_anim_delay)

\* ------------------------------------------------------------------------
\* Properties of the main loop
\* ------------------------------------------------------------------------

\* the restart block has run and the next frame has not begun
Restarted == program = "boot.py" /\ pc = 0 /\ ~still_going

\* the element of an animation_step is at the step's offscreen_loc
Offscreen(step) ==
    /\ elements[step.tilegrid].x = step.offscreen_loc[1]
    /\ elements[step.tilegrid].y = step.offscreen_loc[2]

\* the longest a frame takes
MaxFrameInterval == CHOOSE f \in FrameIntervals : \A g \in FrameIntervals : g <= f

\* C8: when the last step's animator has reported completion, then before
\* the next frame is processed every animation_step's element is at the
\* step's offscreen_loc and the started flag of every step, animation_step
\* and change_palette alike, is false.
C8_RestartResetsSteps ==
    Restarted =>
        \A i \in StepIndices :
            /\ ~started[i + 1]
            /\ At(Steps, i).type = "animation_step" => Offscreen(At(Steps, i))

\* the restart block has run after a pass in which every animator was sent
\* to an on-screen target
C8_Witness ==
    /\ Restarted
    /\ \A i \in StepIndices :
           /\ ~started[i + 1]
           /\ At(Steps, i).type = "animation_step" =>
                  /\ Offscreen(At(Steps, i))
                  /\ animators[At(Steps, i).animator].duration > 0
    /\ last_completion < 0

\* C9 as stated: after the last step's animator completes at time T, the new
\* origin of the sequence is within one frame interval of T.
C9_OriginWithinOneFrame ==
    Restarted => start_time - last_completion <= MaxFrameInterval

\* C9: after the last step's animator completes in the frame of time T, the
\* new origin of the sequence is at least the two seconds of the restart
\* block's sleep later than T.
C9_OriginAfterSleep ==
    Restarted => start_time - last_completion >= 2 * Second

\* the sequence has been restarted, two seconds and a frame after the frame in
\* which the last step completed
C9_Witness ==
    /\ Restarted
    /\ now = start_time
    /\ start_time - last_completion = 2 * Second + MaxFrameInterval

\* every step's action fires again and again, and is armed again and again
EveryStepFiresAgain ==
    \A i \in StepIndices : []<>started[i + 1] /\ []<>(~started[i + 1])

\* C10 as stated: the step scheduler loops forever: the last step's animator
\* completes infinitely often, and after each completion every step's action
\* fires again.
C10_LoopsForever ==
    /\ []<>(pc = Len(Table) /\ ~still_going)
    /\ []<>(pc = 0 /\ ~still_going)
    /\ EveryStepFiresAgain

\* C10: in boot.py the step scheduler loops forever: the last step's animator
\* completes infinitely often, the sequence is restarted after each
\* completion, and every step's action fires again in the pass that follows.
C10_BootLoopsForever ==
    /\ []<>(program = "boot.py" => pc = Len(Table) /\ ~still_going)
    /\ []<>(program = "boot.py" => Restarted)
    /\ \A i \in StepIndices :
           /\ []<>(program = "boot.py" => started[i + 1])
           /\ []<>(program = "boot.py" => ~started[i + 1])

\* in a pass after a restart the last step has fired again and its animator
\* reports completion again
C10_Witness ==
    /\ program = "boot.py"
    /\ last_completion < 0
    /\ pc = Len(Table)
    /\ ~still_going
    /\ \A i \in StepIndices : started[i + 1]

\* ------------------------------------------------------------------------
\* The order of the calls of a frame
\* ------------------------------------------------------------------------

\* the positions in the frame's log of the calls op that step i made
CallsOf(op, i) == { k \in DOMAIN log : log[k].op = op /\ log[k].step = i }

\* the pairs of steps that share a start_time, the earlier list entry first
TiesIn(steps) ==
    { p \in StepIndices \X StepIndices :
        p[1] < p[2] /\ At(steps, p[1]).start_time = At(steps, p[2]).start_time }

\* the ties of the two programs' tables
TiesOf ==
    [ prog \in Programs |-> TiesIn(IF prog = "boot.py" THEN Steps ELSE BootAnimationSteps) ]

\* the ties of the table of the program that runs
Ties == TiesOf[program]

\* C11: when two steps have the same start_time, both become started in the
\* same frame (outside the part of the for loop between the two, their
\* started flags agree), and the earlier list entry's animate_to is invoked
\* before the later one's.
C11_TieBreak ==
    phase = "loop" =>
        \A p \in Ties :
            /\ pc \notin (p[1] + 1)..p[2] => started[p[1] + 1] = started[p[2] + 1]
            /\ \A k2 \in CallsOf("animate_to", p[2]) :
                   \E k1 \in CallsOf("animate_to", p[1]) : k1 < k2

\* the for loop of a frame is through and two steps with the same start_time
\* both had animate_to invoked in it
C11_Witness ==
    /\ pc = Len(Table)
    /\ \E p \in Ties :
           /\ CallsOf("animate_to", p[1]) # {}
           /\ CallsOf("animate_to", p[2]) # {}

\* ------------------------------------------------------------------------
\* Position tween and sprite sub-tween finishing in one tick
\* ------------------------------------------------------------------------

\* a tick now completes the sprite sub-tween
SpriteCompletesNow ==
    /\ A.cur_sprite_index # None
    /\ now >= A.sprite_anim_start_time
    /\ ~SpriteAnimTick(A, E, now).ret

\* the time of the position tween is up
PositionTimeUp == now - A.start_time >= A.duration

\* the position tween and the sprite sub-tween both finish in a tick made now
BothFinishNow == A.pos_animating /\ PositionTimeUp /\ SpriteCompletesNow

\* both still have to finish: a tick now completes neither
BothPending ==
    /\ A.pos_animating /\ ~PositionTimeUp
    /\ A.cur_sprite_index # None /\ ~SpriteCompletesNow

\* the sprite sub-tween is over and the position tween is over or its time is up
BothOver == A.cur_sprite_index = None /\ (A.pos_animating => PositionTimeUp)

\* C12: when the position tween and the sprite sub-tween finish in the same
\* tick, tick() reports completion once: the ticks before it, with both
\* pending, return true; the tick in which both finish returns false; and
\* every tick after it returns false (one true-to-false transition, no later
\* true).
C12_SingleCompletion ==
    [][ last'.op = "tick" =>
          /\ (call.ret /\ BothPending => last'.ret)
          /\ (BothFinishNow => ~last'.ret /\ BothOver')
          /\ (call.ret /\ BothOver => ~last'.ret /\ BothOver') ]_vars

\* a tick has just completed the sprite sub-tween at a time at which the
\* position tween's time was up too
C12_Witness ==
    /\ last.op = "tick" /\ ~last.ret
    /\ call.ret /\ call.start_sprite_anim_at # None
    /\ A.pos_animating /\ PositionTimeUp
    /\ A.cur_sprite_index = None
    /\ Len(frame_log) > 0

\* ------------------------------------------------------------------------
\* The ticks of a frame
\* ------------------------------------------------------------------------

\* the positions in the frame's log of the tick() calls on animator a
TicksOfAnimator(a) ==
    { k \in DOMAIN log : log[k].op = "tick" /\ log[k].args = << a >> }

\* the steps the for loop has been through in this frame that are due and
\* refer to animator a
DueStepsOf(a) ==
    { i \in StepIndices :
        /\ i < pc
        /\ "animator" \in DOMAIN At(Table, i)
        /\ At(Table, i).animator = a
        /\ Due(At(Table, i), now, start_time) }

\* C13 as stated: in every frame no Animator's tick() is invoked more than
\* once, also for an Animator that several steps refer to.
C13_SingleTickPerFrame ==
    \A a \in AnimatorIds : Cardinality(TicksOfAnimator(a)) <= 1

\* C13: in every frame each due step that carries an animator invokes that
\* Animator's tick() once: an Animator is ticked as many times as due steps
\* of the frame refer to it, once if a single step does.
C13_OneTickPerDueStep ==
    phase = "loop" /\ pc > 0 =>
        \A a \in AnimatorIds :
            /\ Cardinality(TicksOfAnimator(a)) = Cardinality(DueStepsOf(a))
            /\ \A i \in DueStepsOf(a) : Cardinality(CallsOf("tick", i)) = 1

\* at the end of the for loop of a frame an Animator that two due steps refer
\* to has been ticked twice
C13_Witness ==
    /\ pc = Len(Table)
    /\ \E a \in AnimatorIds :
           /\ Cardinality(DueStepsOf(a)) = 2
           /\ Cardinality(TicksOfAnimator(a)) = 2

\* ------------------------------------------------------------------------
\* The display refreshes of a frame
\* ------------------------------------------------------------------------

\* the lengths of apple_sprites_palette looked at (the length is data of the
\* bitmap the palette is loaded from)
MaxPaletteLen == 20
PaletteLens == 2..MaxPaletteLen

\* a frame has been processed to its end and log holds its calls
FrameDone == (phase = "loop" /\ pc = 0 /\ log # << >>) \/ phase # "loop"

\* the positions in the log of the display.refresh() calls of the main loop
\* and of the color_sweep_all calls made with refresh_during
RefreshCalls == { k \in DOMAIN log : log[k].op = "display.refresh" }
SweepCalls(refresh_during) ==
    { k \in DOMAIN log : log[k].op = "color_sweep_all" /\ log[k].args[3] = refresh_during }

\* the display.refresh() calls of the frame, those color_sweep_all makes
\* included, when the apple palette has len entries
Refreshes(len) ==
    Cardinality(RefreshCalls)
    + Cardinality(SweepCalls(TRUE)) * SweepRefreshes(len, TRUE)
    + Cardinality(SweepCalls(FALSE)) * SweepRefreshes(len, FALSE)

\* C14 as stated: every processed frame triggers exactly one display
\* refresh, whether or not the sequence is still going and whether or not a
\* change_palette step fired.
C14_OneRefreshPerFrame ==
    FrameDone => \A len \in PaletteLens : Refreshes(len) = 1

\* C14: the main loop requests its own display refresh, the one after the
\* for loop, exactly once in every processed frame, whether or not the
\* sequence is still going.  In boot_animation.py that is the only refresh
\* of a frame.  In boot.py it is the only one of a frame in which no
\* change_palette step fired and the sequence did not end; a frame in which a
\* change_palette step fired has at least one more (color_sweep_all
\* refreshes the display itself), and the frame that ends the sequence has
\* at least three (the restart block sweeps and refreshes).
C14_RefreshesPerFrame ==
    FrameDone =>
        /\ Cardinality({ k \in RefreshCalls : log[k].step = AfterLoop }) = 1
        /\ \A len \in PaletteLens :
               /\ program = "boot_animation.py" => Refreshes(len) = 1
               /\ program = "boot.py" =>
                      /\ SweepCalls(TRUE) = {} /\ ~Restarted => Refreshes(len) = 1
                      /\ SweepCalls(TRUE) # {} => Refreshes(len) >= 2
                      /\ Restarted => Refreshes(len) >= 3

\* a frame of boot.py in which a change_palette step fired has been processed
C14_Witness ==
    /\ FrameDone
    /\ program = "boot.py"
    /\ \E k \in SweepCalls(TRUE) : At(Table, log[k].step).type = "change_palette"

\* ------------------------------------------------------------------------
\* A second animate_to on an animator whose position tween is in flight
\* ------------------------------------------------------------------------

\* animate_to called again while the position tween of the first call is in
\* flight and no sprite sub-tween is armed (as the bounce steps do, boot.py
\* lines 512-533)
RetargetCall ==
    /\ calls = 1
    /\ A.pos_animating
    /\ A.cur_sprite_index = None
    /\ \E t \in Targets, d \in Durations, p \in OvershootPixels, ev \in EasedValues :
          LET res == AnimateTo(A, E, now, t[1], t[2], d, p, None, None, None, None, ev)
          IN  /\ animators' = [animators EXCEPT ![0] = res.self]
              /\ last' = [op |-> "animate_to", ret |-> res.ret, raised |-> FALSE]
              /\ call' = [target_x |-> t[1], target_y |-> t[2], duration |-> d,
                          overshoot_pixels |-> p, start_sprite_anim_at |-> None,
                          sprite_delay |-> None, sprite_from_index |-> None,
                          sprite_to_index |-> None, eased_value |-> ev,
                          at |-> now, ret |-> res.ret]
    /\ calls' = calls + 1
    /\ UNCHANGED << now, elements, frame_log, loop_vars >>

RetargetNext == Advance \/ AnimateToCall \/ TickCall \/ RetargetCall

RetargetSpec == Init /\ [][RetargetNext]_vars

\* the fields of an animator that the position tween reads and writes
PositionFields(a) ==
    << a.pos_animating, a.start_time, a.start_x, a.start_y, a.target_x, a.target_y,
       a.overshoot_x, a.overshoot_y, a.duration, a.overshoot_pixels, a.eased_value >>

\* the animator a new OvershootAnimator of the element becomes by the call
\* recorded in c, made at the time and position the call was made at
Fresh(c, e) ==
    AnimateTo(NewAnimator("tg"), e, c.at, c.target_x, c.target_y, c.duration,
              c.overshoot_pixels, c.start_sprite_anim_at, c.sprite_delay,
              c.sprite_from_index, c.sprite_to_index, c.eased_value).self

\* C15: last write wins: an animate_to with non-zero distance on an Animator
\* whose position tween is in flight starts the new tween from the entity's
\* position at that moment with the current time as origin; nothing of the
\* earlier target and overshoot point is left in the position tween's state
\* (it is that of a new Animator given the same call), so no later tick
\* depends on them; and the tick that ends the tween snaps the entity to the
\* new target.
C15_LastWriteWins ==
    [][ /\ (calls = 1 /\ calls' = 2 /\ A.pos_animating /\ call'.ret) =>
              /\ A'.start_x = E.x /\ A'.start_y = E.y /\ A'.start_time = now
              /\ A'.target_x = call'.target_x /\ A'.target_y = call'.target_y
              /\ PositionFields(A') = PositionFields(Fresh(call', E))
        /\ (calls = 2 /\ call.ret /\ last'.op = "tick") =>
              /\ PositionFields(A) = PositionFields(Fresh(call, [x |-> A.start_x,
                                                                 y |-> A.start_y,
                                                                 frame |-> 0]))
                    \/ ~A.pos_animating
              /\ (A.pos_animating /\ ~A'.pos_animating) =>
                    (E'.x = call.target_x /\ E'.y = call.target_y) ]_vars

\* the tween of a second animate_to, started in mid-flight (from a position
\* that is neither target), has ended with the entity at the second target
C15_Witness ==
    /\ calls = 2 /\ call.ret
    /\ << A.start_x, A.start_y >> \notin Targets
    /\ last.op = "tick" /\ ~A.pos_animating
    /\ E.x = call.target_x /\ E.y = call.target_y

\* ------------------------------------------------------------------------
\* Two animators given the same call
\* ------------------------------------------------------------------------

\* the second animator's clock readings are this much later than the first's
ClockSkew == 3

\* the second animator and its element
A2 == animators[1]
E2 == elements["tg2"]

\* two new animators, each of an element of its own, at the same position
PairInit ==
    /\ now = 0
    /\ animators = [ i \in {0, 1} |-> NewAnimator(IF i = 0 THEN "tg" ELSE "tg2") ]
    /\ \E p \in Targets :
           elements = [ e \in {"tg", "tg2"} |-> [x |-> p[1], y |-> p[2], frame |-> 0] ]
    /\ last = [op |-> "init", ret |-> FALSE, raised |-> FALSE]
    /\ call = [target_x |-> 0, target_y |-> 0, duration |-> 0, overshoot_pixels |-> 0,
               start_sprite_anim_at |-> None, sprite_delay |-> None,
               sprite_from_index |-> None, sprite_to_index |-> None,
               eased_value |-> None, at |-> 0, ret |-> FALSE, same_sprite |-> TRUE,
               start_sprite_anim_at2 |-> None]
    /\ frame_log = << >>
    /\ calls = 0
    /\ start_time = 0
    /\ started = << >>
    /\ still_going = TRUE
    /\ color = 0
    /\ frame_interval = 0
    /\ last_completion = 0
    /\ pc = 0
    /\ program = "boot.py"
    /\ phase = "loop"
    /\ tlv320_present = FALSE
    /\ audio_playing = FALSE
    /\ next_code_file = None
    /\ log = << >>
    /\ fired = << >>

\* animate_to on both animators, each at its own clock reading, with the same
\* target, duration, overshoot_pixels and eased_value; the sprite sub-tween
\* of the second starts at s2
PairAnimateTo ==
    /\ calls = 0
    /\ \E t \in Targets, d \in Durations, p \in OvershootPixels, s \in SpriteStarts,
          s2 \in SpriteStarts, r \in SpriteRanges, sd \in SpriteDelays,
          ev \in EasedValues :
          LET res  == AnimateTo(A, E, now, t[1], t[2], d, p, s, Some(sd),
                                Some(r[1]), Some(r[2]), ev)
              res2 == AnimateTo(A2, E2, now + ClockSkew, t[1], t[2], d, p, s2, Some(sd),
                                Some(r[1]), Some(r[2]), ev)
          IN  /\ animators' = [animators EXCEPT ![0] = res.self, ![1] = res2.self]
              /\ last' = [op |-> "animate_to", ret |-> res.ret, raised |-> FALSE]
              /\ call' = [target_x |-> t[1], target_y |-> t[2], duration |-> d,
                          overshoot_pixels |-> p, start_sprite_anim_at |-> s,
                          sprite_delay |-> Some(sd), sprite_from_index |-> Some(r[1]),
                          sprite_to_index |-> Some(r[2]), eased_value |-> ev,
                          at |-> now, ret |-> res.ret, same_sprite |-> (s = s2),
                          start_sprite_anim_at2 |-> s2]
              /\ frame_log' = IF s # None THEN << >> ELSE frame_log
    /\ calls' = calls + 1
    /\ UNCHANGED << now, elements, loop_vars >>

\* tick on both animators, sampled at the same elapsed time
PairTick ==
    /\ LET res  == Tick(A, E, now)
           res2 == Tick(A2, E2, now + ClockSkew)
       IN  /\ animators' = [animators EXCEPT ![0] = res.self, ![1] = res2.self]
           /\ elements' = [elements EXCEPT !["tg"] = res.element, !["tg2"] = res2.element]
           /\ last' = [op |-> "tick", ret |-> res.ret, raised |-> res.raised]
           /\ frame_log' = IF res.wrote # None THEN Append(frame_log, Val(res.wrote))
                                              ELSE frame_log
    /\ UNCHANGED << now, call, calls, loop_vars >>

PairNext == Advance \/ PairAnimateTo \/ PairTick

PairSpec == PairInit /\ [][PairNext]_vars

\* tick, lines 149-155: the call returns at the end of the sprite sub-tween
EndsInSprite(self, element, _now) ==
    /\ self.cur_sprite_index # None
    /\ _now >= self.sprite_anim_start_time
    /\ ~SpriteAnimTick(self, element, _now).ret

\* a tick made now writes the position of both elements: neither call ends
\* in the sprite sub-tween
BothWritePosition ==
    /\ A.pos_animating /\ A2.pos_animating
    /\ ~EndsInSprite(A, E, now)
    /\ ~EndsInSprite(A2, E2, now + ClockSkew)

AtTurningPoint == 10 * (now - A.start_time) = 7 * A.duration

\* animate_to, lines 94-108: target + unit direction x overshoot_pixels, from
\* the arguments of the call and the position the tween started from
OvershootPoint ==
    LET dx == call.target_x - A.start_x
        dy == call.target_y - A.start_y
        distance == Distance(dx, dy)
    IN  << call.target_x * Scale + Trunc(dx * Scale * 100, distance) * call.overshoot_pixels,
           call.target_y * Scale + Trunc(dy * Scale * 100, distance) * call.overshoot_pixels >>

ElapsedAt(t) == t - start_time

\* lines 725-726, 762: the frame is the first one of the pass in which the
\* elapsed time has reached the step's start_time: the frame before it, one
\* frame_interval earlier, had not, or there is no frame before it
FirstFrameAtOrAfter(step) ==
    /\ ElapsedAt(now) >= step.start_time
    /\ now = start_time \/ ElapsedAt(now - frame_interval) < step.start_time

\* lines 736-751: the calls that are the action of the step at index i
ActionCallsOf(i) ==
    IF At(Table, i).type = "animation_step" THEN CallsOf("animate_to", i)
    ELSE IF program = "boot.py" THEN CallsOf("color_sweep_all", i)
    ELSE CallsOf("pixel_shader", i)

\* C18: in every pass of the sequence each step's action (animate_to for an
\* animation_step, the recolouring for a change_palette step) is invoked
\* exactly once, in the first frame whose elapsed time since the origin of
\* the sequence is >= the step's start_time, and never in a frame whose
\* elapsed time is < start_time; the started flag is true exactly for the
\* steps whose action has fired in the current pass.
C18_ActionOncePerPass ==
    [][ /\ phase' = "loop" =>
              \A i \in 0..(Len(Table) - 1) :
                 /\ fired'[i + 1] <= 1
                 /\ started'[i + 1] <=> fired'[i + 1] = 1
                 /\ fired'[i + 1] = 1 => ElapsedAt(now)' >= At(Table, i).start_time
                 /\ i < pc' => (fired'[i + 1] = 1 <=> ElapsedAt(now)' >= At(Table, i).start_time)
        /\ phase' = "loop" /\ pc' = Len(Table) /\ ~still_going' =>
              \A i \in 0..(Len(Table) - 1) : fired'[i + 1] = 1
        /\ phase = "loop" /\ pc' = pc + 1 =>
              \A p \in { pc } :
                 /\ fired'[p + 1] = fired[p + 1] + 1 <=> FirstFrameAtOrAfter(At(Table, p))
                 /\ fired'[p + 1] = fired[p + 1] + 1 <=> Cardinality(ActionCallsOf(p)') = 1
                 /\ fired'[p + 1] = fired[p + 1] <=> ActionCallsOf(p)' = { }
                 /\ \A i \in 0..(Len(Table) - 1) :
                       i # p => fired'[i + 1] = fired[i + 1] ]_vars

\* in the second pass of boot.py a step's action has fired again, in a frame
\* later than the one in which the elapsed time is the step's start_time
C18_Witness ==
    /\ program = "boot.py" /\ phase = "loop"
    /\ last_completion < 0
    /\ \E i \in 0..(Len(Table) - 1) :
          /\ i < pc
          /\ fired[i + 1] = 1 /\ started[i + 1]
          /\ ActionCallsOf(i) # { }
          /\ ElapsedAt(now) > At(Table, i).start_time
          /\ ~started[Len(Table)]

\* ------------------------------------------------------------------------
\* The end of the sequence
\* ------------------------------------------------------------------------

\* line 754: the index of the last step of the list
LastIndex == Len(Table) - 1

\* lines 731-755: what step["animator"].tick() returns when the for loop is
\* at the last step and the step is due: the tick follows the animate_to of
\* the frame in which the step becomes started
LastStepTick ==
    LET step == At(Table, LastIndex)
        st0  == LoopState(animators, elements, started, still_going, color, log, fired)
        st   == IF started[LastIndex + 1] THEN st0
                ELSE StartStep(step, LastIndex,
                               [st0 EXCEPT !.started[LastIndex + 1] = TRUE], now)
        self == st.animators[step.animator]
    IN  Tick(self, st.elements[self.element], now).ret

\* boot.py lines 764-778, boot_animation.py lines 677-678: the frame ends with
\* the sequence taken for finished, by the restart block or by break
TakenForFinished ==
    /\ phase = "loop" /\ pc = Len(Table)
    /\ phase' # "loop" \/ CallsOf("color_sweep_all", RestartBlock)' # { }

\* C19: completion of the sequence is inferred only from the last step: the
\* scheduler treats the sequence as finished (restart in boot.py, loop exit
\* in boot_animation.py) only in a frame in which the last step has been
\* started and the tick() invoked through the last step returned false; in
\* every frame whose elapsed time is below the last step's start_time the
\* sequence is reported still going.
C19_CompletionFromLastStep ==
    [][ /\ phase = "loop" /\ pc' = pc + 1 /\ pc < LastIndex => still_going'
        /\ phase = "loop" /\ pc' = pc + 1 /\ pc = LastIndex =>
              still_going' = (IF ElapsedAt(now) >= At(Table, LastIndex).start_time
                              THEN LastStepTick ELSE TRUE)
        /\ phase' = "loop" /\ pc' = Len(Table)
                /\ ElapsedAt(now)' < At(Table, LastIndex).start_time => still_going'
        /\ TakenForFinished =>
              /\ ~still_going
              /\ started[LastIndex + 1]
              /\ CallsOf("tick", LastIndex) # { }
        /\ phase = "loop" /\ pc = Len(Table) /\ still_going =>
              /\ ~TakenForFinished
              /\ started' = started /\ start_time' = start_time ]_vars

\* boot.py has restarted the sequence after a frame in which the tick
\* through the last step returned False, while ticks through earlier steps
\* of the apple's animator had returned False in frames before it
C19_Witness ==
    /\ program = "boot.py" /\ phase = "loop" /\ pc = 0
    /\ ~still_going
    /\ CallsOf("color_sweep_all", RestartBlock) # { }
    /\ CallsOf("tick", LastIndex) # { }
    /\ \A i \in 0..LastIndex : ~started[i + 1]

\* ------------------------------------------------------------------------
\* The end of the sprite sub-tween
\* ------------------------------------------------------------------------

\* lines 41-57 and 127-132: the sprite fields of an animator
SpriteFields(a) ==
    << a.cur_sprite_index, a.sprite_anim_from_index, a.sprite_anim_to_index,
       a.sprite_anim_delay, a.last_sprite_frame_time, a.sprite_anim_start_time >>

\* lines 117-126: in a tick made now the frame is written and the index goes
\* past sprite_anim_to_index
IndexExceedsNow ==
    /\ A.cur_sprite_index # None
    /\ now >= A.sprite_anim_start_time
    /\ FrameDue(A, now)
    /\ Val(A.cur_sprite_index) + 1 > Val(A.sprite_anim_to_index)

At2 == call.at + ClockSkew

\* C21: after animate_to with start_sprite_anim_at = s (not None) called at
\* time t0, the sprite sub-tween is armed with cur_sprite_index =
\* sprite_from_index, no tick() sampled before t0 + s writes the entity's
\* frame slot, and the first value written to the frame slot is
\* sprite_from_index.
C21_SpriteStart ==
    [][ /\ last'.op = "animate_to" =>
              /\ call'.start_sprite_anim_at # None =>
                    /\ A'.cur_sprite_index = call'.sprite_from_index
                    /\ A'.sprite_anim_start_time
                          = call'.at + Val(call'.start_sprite_anim_at)
              /\ call'.start_sprite_anim_at2 # None =>
                    /\ A2'.cur_sprite_index = call'.sprite_from_index
                    /\ A2'.sprite_anim_start_time
                          = At2' + Val(call'.start_sprite_anim_at2)
        /\ last'.op = "tick" /\ calls = 1 =>
              /\ call.start_sprite_anim_at # None
                    /\ now < call.at + Val(call.start_sprite_anim_at) =>
                    /\ E'.frame = E.frame /\ frame_log' = << >>
                    /\ A'.cur_sprite_index = call.sprite_from_index
              /\ call.start_sprite_anim_at2 # None
                    /\ now + ClockSkew < At2 + Val(call.start_sprite_anim_at2) =>
                    /\ E2'.frame = E2.frame
                    /\ A2'.cur_sprite_index = call.sprite_from_index
              /\ frame_log = << >> /\ frame_log' # << >> =>
                    frame_log' = << Val(call.sprite_from_index) >>
              /\ A2.cur_sprite_index = call.sprite_from_index
                    /\ A2'.cur_sprite_index # call.sprite_from_index =>
                    E2'.frame = Val(call.sprite_from_index) ]_vars

\* the second animator, armed at clock value 3 with start_sprite_anim_at 5,
\* has written its first frame, sprite_from_index, in a tick at 8 or later,
\* after ticks before 8 that wrote none
C21_Witness ==
    /\ last.op = "tick"
    /\ call.start_sprite_anim_at2 = Some(5)
    /\ call.start_sprite_anim_at = None
    /\ now + ClockSkew >= At2 + 5
    /\ A2.cur_sprite_index = Some(Val(call.sprite_from_index) + 1)
    /\ E2.frame = Val(call.sprite_from_index)
    /\ E.frame = 0 /\ frame_log = << >>

\* ------------------------------------------------------------------------
\* What animate_to records
\* ------------------------------------------------------------------------

\* lines 93-99: the entity is not at the target of the call being made
AwayFrom(c) == << E.x, E.y >> # << c.target_x, c.target_y >>

\* C22: animate_to with start # target records the entity's current (x, y)
\* as the tween's start point and the current time as its origin, stores the
\* target, duration, overshoot_pixels and eased_value of this call, sets
\* pos_animating to true and returns true.
C22_AnimateToRecords ==
    [][ last'.op = "animate_to" /\ AwayFrom(call') =>
          /\ A'.start_x = E.x /\ A'.start_y = E.y
          /\ A'.start_time = now
          /\ A'.target_x = call'.target_x /\ A'.target_y = call'.target_y
          /\ A'.duration = call'.duration
          /\ A'.overshoot_pixels = call'.overshoot_pixels
          /\ A'.eased_value = call'.eased_value
          /\ A'.pos_animating
          /\ last'.ret /\ call'.ret
          /\ E' = E ]_vars

\* a second animate_to, made after time has passed and with the entity in
\* mid-flight, has just recorded that position and that time and returned
\* True
C22_Witness ==
    /\ last.op = "animate_to" /\ last.ret
    /\ calls = 2 /\ now > 0
    /\ << E.x, E.y >> \notin Targets
    /\ A.start_x = E.x /\ A.start_y = E.y /\ A.start_time = now
    /\ A.pos_animating

\* ------------------------------------------------------------------------
\* Any sequence of calls on a new animator
\* ------------------------------------------------------------------------

\* the number of animate_to calls of a sequence, and the time it takes
MaxCalls == 2
MaxSequenceTime == 3

\* the arguments these calls are drawn from: every duration is > 0, and
\* eased_value may be 0
SequenceDurations == { 2 }
SequenceSpriteStarts == { None, Some(0) }
SequenceSpriteRanges == { <<2, 3>> }

\* overshoot_pixels and eased_value of a call: tick reads eased_value only
\* when overshoot_pixels is 0 (line 195)
SequenceEasings == { <<0, None>>, <<0, Some(0)>>, <<0, Some(1)>>, <<5, None>> }

\* a call of animate_to, on the animator as the calls before have left it
AnimateToAgain ==
    /\ calls < MaxCalls
    /\ \E t \in Targets, d \in SequenceDurations, pe \in SequenceEasings,
          s \in SequenceSpriteStarts, r \in SequenceSpriteRanges, sd \in SpriteDelays :
          LET p   == pe[1]
              ev  == pe[2]
              res == AnimateTo(A, E, now, t[1], t[2], d, p, s, Some(sd),
                               Some(r[1]), Some(r[2]), ev)
          IN  /\ animators' = [animators EXCEPT ![0] = res.self]
              /\ last' = [op |-> "animate_to", ret |-> res.ret, raised |-> FALSE]
              /\ call' = [target_x |-> t[1], target_y |-> t[2], duration |-> d,
                          overshoot_pixels |-> p, start_sprite_anim_at |-> s,
                          sprite_delay |-> Some(sd), sprite_from_index |-> Some(r[1]),
                          sprite_to_index |-> Some(r[2]), eased_value |-> ev,
                          at |-> now, ret |-> res.ret]
              /\ frame_log' = IF s # None THEN << >> ELSE frame_log
    /\ calls' = calls + 1
    /\ UNCHANGED << now, elements, loop_vars >>

\* time passes between two calls of the sequence
SequenceAdvance ==
    /\ now < MaxSequenceTime
    /\ now' = now + 1
    /\ last' = [op |-> "advance", ret |-> FALSE, raised |-> FALSE]
    /\ UNCHANGED << animators, elements, call, frame_log, calls, loop_vars >>

SequenceNext == SequenceAdvance \/ AnimateToAgain \/ TickCall \/ CancelCall

SequenceSpec == Init /\ [][SequenceNext]_vars

C24_CancelStopsMotion ==
    [][ /\ last'.op = "cancel" =>
              /\ ~A'.pos_animating
              /\ SpriteFields(A') = SpriteFields(A)
        /\ calls > 0 /\ call.ret /\ ~A.pos_animating /\ last'.op = "tick" =>
              E'.x = E.x /\ E'.y = E.y ]_vars

\* ------------------------------------------------------------------------
\* A sprite sub-tween across a new position tween
\* ------------------------------------------------------------------------

\* lines 117-126: a tick made now writes the next frame of the sprite
\* sub-tween that is armed
WritesFrameNow ==
    /\ A.cur_sprite_index # None
    /\ now >= A.sprite_anim_start_time
    /\ FrameDue(A, now)

\* C25: animate_to called with start_sprite_anim_at = None leaves every
\* sprite sub-tween field (cur_sprite_index, from/to index, delay, start
\* time, last frame time) unchanged, so a sprite sub-tween armed by an
\* earlier call keeps running to its sprite_anim_to_index across the new
\* position tween: the ticks after the call write its next frames, one
\* index after the other, and the one that writes sprite_anim_to_index ends
\* it.
C25_SpriteOutlivesCall ==
    [][ /\ last'.op = "animate_to" /\ call'.start_sprite_anim_at = None =>
              /\ SpriteFields(A') = SpriteFields(A)
              /\ E' = E /\ frame_log' = frame_log
        /\ last'.op = "tick" /\ calls > 0 /\ call.start_sprite_anim_at = None =>
              /\ WritesFrameNow =>
                    /\ E'.frame = Val(A.cur_sprite_index)
                    /\ frame_log' = Append(frame_log, Val(A.cur_sprite_index))
                    /\ IF Val(A.cur_sprite_index) < Val(A.sprite_anim_to_index)
                       THEN /\ A'.cur_sprite_index = Some(Val(A.cur_sprite_index) + 1)
                            /\ A'.sprite_anim_to_index = A.sprite_anim_to_index
                       ELSE SpriteFields(A') = SpriteFields(NewAnimator("tg"))
              /\ ~WritesFrameNow =>
                    /\ SpriteFields(A') = SpriteFields(A)
                    /\ E'.frame = E.frame ]_vars

\* a sprite sub-tween armed by the first animate_to has written its last
\* frame, and ended, after a second animate_to that armed none and started a
\* new position tween
C25_Witness ==
    /\ last.op = "tick"
    /\ calls = 2 /\ call.start_sprite_anim_at = None /\ call.ret
    /\ call.at <= 1 /\ now >= 2
    /\ frame_log = << 2, 3 >>
    /\ A.cur_sprite_index = None
    /\ E.frame = 3

\* ------------------------------------------------------------------------
\* The animators of the step table
\* ------------------------------------------------------------------------

\* lines 512-573: the list indices of the bounces of F, R and U, each with
\* the index of the step whose animator it is given
ReusePairs == { <<8, 1>>, <<10, 2>>, <<12, 4>> }

\* C26: in the built step table, the steps at list indices 8, 10 and 12
\* reuse the Animators created for the steps at indices 1, 2 and 4
\* respectively, and for every animation_step in the final list the step's
\* animator animates the step's own tilegrid (animator.element is
\* step.tilegrid), despite the positional insert() calls made while the list
\* is under construction.
C26_AnimatorsOfSteps ==
    /\ \A p \in ReusePairs :
          /\ At(Table, p[1]).animator = At(Table, p[2]).animator
          /\ At(Table, p[2]).animator = p[2]
          /\ At(Table, p[1]).tilegrid = At(LiteralSteps, p[2]).tilegrid
          /\ At(Table, p[2]) = At(WithAnimators(LiteralStepsOf(program)), p[2])
    /\ \A i \in 0..(Len(Table) - 1) :
          At(Table, i).type = "animation_step" =>
             animators[At(Table, i).animator].element = At(Table, i).tilegrid

\* the step at list index 8 has just sent the animator of step 1, and with
\* it the tilegrid of the F, to its own onscreen_loc
C26_Witness ==
    /\ phase = "loop" /\ pc > 8
    /\ CallsOf("animate_to", 8) # { }
    /\ animators[1].element = "f"
    /\ animators[1].pos_animating
    /\ animators[1].target_y = At(Table, 8).onscreen_loc[2]
    /\ animators[1].target_y # At(Table, 1).onscreen_loc[2]
    /\ animators[1].start_time = now

\* ------------------------------------------------------------------------
\* The animator a step finds
\* ------------------------------------------------------------------------

\* the time between two frames, in milliseconds, up to which the steps of
\* the tables find their animators idle
MaxFrameGap == 50

\* lines 734-748: the for loop is at an animation_step that becomes started:
\* the body calls animate_to
FiresAnimateTo ==
    /\ phase = "loop" /\ pc < Len(Table)
    /\ At(Table, pc).type = "animation_step"
    /\ Due(At(Table, pc), now, start_time)
    /\ ~started[pc + 1]

\* C27: in the scheduler as configured (the step tables of boot.py and
\* boot_animation.py), provided consecutive frames are at most 50 ms apart,
\* every animate_to fired by a step finds its Animator idle (pos_animating
\* false and no sprite sub-tween armed): no step re-targets an Animator whose
\* earlier tween is still in flight.
C27_AnimatorsFoundIdle ==
    (FiresAnimateTo /\ frame_interval <= MaxFrameGap)
        => Idle(animators[At(Table, pc).animator])

\* with frames 50 ms apart, the bounce of the F is about to call animate_to
\* on the animator that the F's own step used, and finds it idle, the tween
\* of that step over with the F at its onscreen_loc
C27_Witness ==
    /\ FiresAnimateTo /\ frame_interval = MaxFrameGap
    /\ pc = 8
    /\ Idle(animators[1])
    /\ started[2]
    /\ animators[1].target_y = At(Table, 1).onscreen_loc[2]
    /\ elements["f"].y = At(Table, 1).onscreen_loc[2]

\* ------------------------------------------------------------------------
\* The entities after a restart
\* ------------------------------------------------------------------------

\* the list indices of the animation steps that refer to tilegrid e
StepsOfTilegrid(e) ==
    { i \in 0..(Len(Table) - 1) :
         At(Table, i).type = "animation_step" /\ At(Table, i).tilegrid = e }

\* lines 764-778: the sequence has been restarted: the frame that completed
\* the pass before lies before the origin of this one
AfterRestart == program = "boot.py" /\ phase = "loop" /\ last_completion < 0

\* C28: after a restart in boot.py, each entity stays at its offscreen_loc
\* until the first step referencing it becomes due in the new pass: no
\* Animator's tick() is invoked through a step whose start_time has not been
\* reached, so tween state left over from the previous pass never moves an
\* entity.
C28_OffscreenUntilDue ==
    AfterRestart =>
       /\ \A e \in ElementIds :
             (\A i \in StepsOfTilegrid(e) : ~started[i + 1]) =>
                \A i \in StepsOfTilegrid(e) :
                   /\ elements[e].x = At(Table, i).offscreen_loc[1]
                   /\ elements[e].y = At(Table, i).offscreen_loc[2]
       /\ pc > 0 =>
             \A k \in DOMAIN log :
                log[k].op = "tick" =>
                   ElapsedAt(now) >= At(Table, log[k].step).start_time

\* in the second pass, at the end of a frame in which animators were ticked,
\* the T is still at its offscreen_loc: no step that refers to it is due
\* yet, and its animator holds the target of the bounce of the pass before
C28_Witness ==
    /\ AfterRestart /\ pc = Len(Table)
    /\ CallsOf("tick", 1) # { }
    /\ \A i \in StepsOfTilegrid("t") : ~started[i + 1]
    /\ elements["t"].y = At(Table, 6).offscreen_loc[2]
    /\ animators[6].target_y = At(Table, 14).onscreen_loc[2]
    /\ animators[6].target_y # elements["t"].y
    /\ animators[6].duration > 0

\* ------------------------------------------------------------------------
\* The end of boot_animation.py
\* ------------------------------------------------------------------------

\* boot_animation.py lines 680-682: nothing is left to wait for
AudioOver == phase = "audio" /\ ~(tlv320_present /\ audio_playing)

\* boot_animation.py lines 684-685: code.py is the next code file and the
\* reload is requested
Reloaded == phase = "reloaded" /\ next_code_file = Some("code.py")

\* C29: boot_animation.py's frame loop terminates: with time advancing
\* between frames, a frame is reached in which the last step has started and
\* the tick() invoked through it returns false, the loop exits without
\* restarting the sequence, and once audio playback has ended code.py is set
\* as the next code file and a reload is requested.
C29_BootAnimationTerminates ==
    /\ <>(program = "boot.py"
            \/ (phase = "loop" /\ pc = Len(Table) /\ started[Len(Table)] /\ ~still_going
                   /\ CallsOf("tick", LastIndex) # { }))
    /\ <>(program = "boot.py" \/ phase # "loop")
    /\ [][program = "boot_animation.py" =>
             /\ phase # "loop" => phase' # "loop"
             /\ start_time' = start_time
             /\ \A i \in 0..LastIndex : started[i + 1] => started'[i + 1]]_vars
    /\ (program = "boot_animation.py" /\ AudioOver) ~> Reloaded
    /\ [](phase = "reloaded" => Reloaded)

\* boot_animation.py has left its frame loop with every step started, has
\* waited for the audio that was playing, and has handed off to code.py
C29_Witness ==
    /\ program = "boot_animation.py"
    /\ Reloaded
    /\ tlv320_present /\ ~audio_playing
    /\ ~still_going /\ pc = Len(Table)
    /\ \A i \in 0..LastIndex : started[i + 1] /\ fired[i + 1] = 1
    /\ start_time = 0

\* ------------------------------------------------------------------------
\* The copy of OvershootAnimator in boot_animation.py
\* ------------------------------------------------------------------------

\* boot_animation.py lines 53-78, OvershootAnimator.__init__
BootAnimationNewAnimator(element) ==
    [ element                |-> element,
      pos_animating          |-> FALSE,
      start_time             |-> 0,
      start_x                |-> 0,
      start_y                |-> 0,
      target_x               |-> 0,
      target_y               |-> 0,
      overshoot_x            |-> 0,
      overshoot_y            |-> 0,
      duration               |-> 0,
      overshoot_pixels       |-> 0,
      eased_value            |-> None,
      cur_sprite_index       |-> None,
      last_sprite_frame_time |-> -Second,
      sprite_anim_start_time |-> -Second,
      sprite_anim_from_index |-> None,
      sprite_anim_to_index   |-> None,
      sprite_anim_delay      |-> None ]

\* boot_animation.py lines 93-98, animate_to: record starting position and time
BootAnimationRecordStart(self, element, _now) ==
    [self EXCEPT !.start_x = element.x,
                 !.start_y = element.y,
                 !.start_time = _now]

\* boot_animation.py lines 99-104, animate_to: arm the sprite sub-tween
BootAnimationArmSprite(self, _now, start_sprite_anim_at, sprite_delay, sprite_from_index, sprite_to_index) ==
    IF start_sprite_anim_at # None
    THEN [self EXCEPT !.sprite_anim_start_time = _now + Val(start_sprite_anim_at),
                      !.sprite_anim_to_index = sprite_to_index,
                      !.sprite_anim_from_index = sprite_from_index,
                      !.cur_sprite_index = sprite_from_index,
                      !.sprite_anim_delay = sprite_delay]
    ELSE self

\* boot_animation.py lines 106-110, animate_to: store target position and parameters
BootAnimationStoreTarget(self, target_x, target_y, duration, overshoot_pixels) ==
    [self EXCEPT !.target_x = target_x,
                 !.target_y = target_y,
                 !.duration = duration,
                 !.overshoot_pixels = overshoot_pixels]

\* boot_animation.py lines 122-132, animate_to: direction, overshoot position, start
BootAnimationStartTween(self, dx, dy, distance, eased_value) ==
    LET dir_x == Trunc(dx * Scale * 100, distance)
        dir_y == Trunc(dy * Scale * 100, distance)
    IN  [self EXCEPT !.overshoot_x = self.target_x * Scale + dir_x * self.overshoot_pixels,
                     !.overshoot_y = self.target_y * Scale + dir_y * self.overshoot_pixels,
                     !.eased_value = eased_value,
                     !.pos_animating = TRUE]

\* boot_animation.py lines 80-133, OvershootAnimator.animate_to
BootAnimationAnimateTo(self, element, _now, target_x, target_y, duration, overshoot_pixels, start_sprite_anim_at, sprite_delay, sprite_from_index, sprite_to_index, eased_value) ==
    LET s1 == BootAnimationRecordStart(self, element, _now)
        s2 == BootAnimationArmSprite(s1, _now, start_sprite_anim_at, sprite_delay,
                        sprite_from_index, sprite_to_index)
        s3 == BootAnimationStoreTarget(s2, target_x, target_y, duration, overshoot_pixels)
        dx == target_x - s3.start_x
        dy == target_y - s3.start_y
        distance == Distance(dx, dy)
    IN  IF distance <= 0
        THEN [self |-> s3, ret |-> FALSE]
        ELSE [self |-> BootAnimationStartTween(s3, dx, dy, distance, eased_value), ret |-> TRUE]

\* boot_animation.py lines 142-147, sprite_anim_tick: all sprite fields back to inactive
BootAnimationClearSprite(self) ==
    [self EXCEPT !.cur_sprite_index = None,
                 !.sprite_anim_from_index = None,
                 !.sprite_anim_to_index = None,
                 !.sprite_anim_delay = None,
                 !.last_sprite_frame_time = -Second,
                 !.sprite_anim_start_time = -Second]

\* boot_animation.py lines 136-136, sprite_anim_tick: enough time since the last frame write
BootAnimationFrameDue(self, cur_time) ==
    cur_time >= self.last_sprite_frame_time + Val(self.sprite_anim_delay)

\* boot_animation.py lines 135-150, OvershootAnimator.sprite_anim_tick
BootAnimationSpriteAnimTick(self, element, cur_time) ==
    IF BootAnimationFrameDue(self, cur_time)
    THEN LET idx == Val(self.cur_sprite_index)
             e1  == [element EXCEPT !.frame = idx]
             s1  == [self EXCEPT !.last_sprite_frame_time = cur_time,
                                 !.cur_sprite_index = Some(idx + 1)]
         IN  IF idx + 1 > Val(self.sprite_anim_to_index)
             THEN [self |-> BootAnimationClearSprite(s1), element |-> e1, ret |-> FALSE,
                   wrote |-> Some(idx)]
             ELSE [self |-> s1, element |-> e1, ret |-> TRUE, wrote |-> Some(idx)]
    ELSE [self |-> self, element |-> element, ret |-> TRUE, wrote |-> None]

\* boot_animation.py lines 192-215, tick: the eased position (fixed point) at elapsed / duration < 1
BootAnimationEasedPosition(self, elapsed) ==
    LET sx == self.start_x * Scale
        sy == self.start_y * Scale
        tx == self.target_x * Scale
        ty == self.target_y * Scale
    IN  IF self.overshoot_pixels > 0
        THEN IF 10 * elapsed < 7 * self.duration
             THEN LET eased == Pow12((10 * elapsed * Scale) \div (7 * self.duration))
                  IN  << sx + Trunc((self.overshoot_x - sx) * eased, Scale),
                         sy + Trunc((self.overshoot_y - sy) * eased, Scale) >>
             ELSE LET sub_progress == ((10 * elapsed - 7 * self.duration) * Scale)
                                          \div (3 * self.duration)
                      inv == Scale - sub_progress
                      eased == Scale - (inv * inv) \div Scale
                  IN  << self.overshoot_x + Trunc((tx - self.overshoot_x) * eased, Scale),
                         self.overshoot_y + Trunc((ty - self.overshoot_y) * eased, Scale) >>
        ELSE LET progress == (elapsed * Scale) \div self.duration
                 inv == Scale - progress
                 inv2 == (inv * inv) \div Scale
                 eased == IF self.eased_value = None
                          THEN Scale - (inv2 * inv2) \div Scale
                          ELSE progress \div Val(self.eased_value)
             IN  << sx + Trunc((tx - sx) * eased, Scale),
                    sy + Trunc((ty - sy) * eased, Scale) >>

\* boot_animation.py lines 175-221, tick: the position tween, after the sprite sub-tween
BootAnimationPositionTick(self, element, _now, still_sprite_animating, wrote) ==
    LET elapsed == _now - self.start_time
    IN  IF self.duration = 0
        THEN \* elapsed / self.duration raises ZeroDivisionError
             [self |-> self, element |-> element, ret |-> FALSE,
              wrote |-> wrote, raised |-> TRUE]
        ELSE IF elapsed >= self.duration
        THEN [self |-> [self EXCEPT !.pos_animating = FALSE],
              element |-> [element EXCEPT !.x = self.target_x, !.y = self.target_y],
              ret |-> still_sprite_animating,
              wrote |-> wrote, raised |-> FALSE]
        ELSE IF self.overshoot_pixels <= 0 /\ self.eased_value = Some(0)
        THEN \* progress / self.eased_value raises ZeroDivisionError
             [self |-> self, element |-> element, ret |-> FALSE,
              wrote |-> wrote, raised |-> TRUE]
        ELSE LET cur == BootAnimationEasedPosition(self, elapsed)
             IN  [self |-> self,
                  element |-> [element EXCEPT !.x = Trunc(cur[1], Scale),
                                              !.y = Trunc(cur[2], Scale)],
                  ret |-> TRUE, wrote |-> wrote, raised |-> FALSE]

\* boot_animation.py lines 152-221, OvershootAnimator.tick
BootAnimationTick(self, element, _now) ==
    IF self.cur_sprite_index # None
    THEN IF _now >= self.sprite_anim_start_time
         THEN LET r == BootAnimationSpriteAnimTick(self, element, _now)
              IN  IF ~r.ret
                  THEN [self |-> r.self, element |-> r.element, ret |-> FALSE,
                        wrote |-> r.wrote, raised |-> FALSE]
                  ELSE BootAnimationPositionTick(r.self, r.element, _now, TRUE, r.wrote)
         ELSE BootAnimationPositionTick(self, element, _now, FALSE, None)
    ELSE IF ~self.pos_animating
         THEN [self |-> self, element |-> element, ret |-> FALSE,
               wrote |-> None, raised |-> FALSE]
         ELSE BootAnimationPositionTick(self, element, _now, FALSE, None)

\* cancel that ends the sprite sub-tween as well
BootAnimationCancelEndsSprite(self) ==
    BootAnimationClearSprite([self EXCEPT !.pos_animating = FALSE])

\* boot_animation.py lines 227-229, OvershootAnimator.cancel
BootAnimationCancel(self) == [self EXCEPT !.pos_animating = FALSE]

\* boot_animation.py lines 223-225, OvershootAnimator.is_animating
BootAnimationIsAnimating(self) == self.pos_animating

\* ------------------------------------------------------------------------
\* The two copies given the same calls
\* ------------------------------------------------------------------------

\* a new animator of each class, each of an element of its own, the two
\* elements in the same state
CopyInit ==
    /\ now = 0
    /\ animators = [ i \in {0, 1} |-> IF i = 0 THEN NewAnimator("tg")
                                               ELSE BootAnimationNewAnimator("tg2") ]
    /\ \E p \in Targets :
           elements = [ e \in {"tg", "tg2"} |-> [x |-> p[1], y |-> p[2], frame |-> 0] ]
    /\ last = [op |-> "init", ret |-> FALSE, raised |-> FALSE, wrote |-> None,
               ret2 |-> FALSE, raised2 |-> FALSE, wrote2 |-> None]
    /\ call = [target_x |-> 0, target_y |-> 0, duration |-> 0, overshoot_pixels |-> 0,
               start_sprite_anim_at |-> None, sprite_delay |-> None,
               sprite_from_index |-> None, sprite_to_index |-> None,
               eased_value |-> None, at |-> 0, ret |-> FALSE]
    /\ frame_log = << >>
    /\ calls = 0
    /\ start_time = 0
    /\ started = << >>
    /\ still_going = TRUE
    /\ color = 0
    /\ frame_interval = 0
    /\ last_completion = 0
    /\ pc = 0
    /\ program = "boot.py"
    /\ phase = "loop"
    /\ tlv320_present = FALSE
    /\ audio_playing = FALSE
    /\ next_code_file = None
    /\ log = << >>
    /\ fired = << >>

\* animate_to with the same arguments on both animators, at the same clock
\* reading
CopyAnimateTo ==
    /\ calls < MaxCalls
    /\ \E t \in Targets, d \in SequenceDurations, pe \in SequenceEasings,
          s \in SequenceSpriteStarts, r \in SequenceSpriteRanges, sd \in SpriteDelays :
          LET p    == pe[1]
              ev   == pe[2]
              res  == AnimateTo(A, E, now, t[1], t[2], d, p, s, Some(sd),
                                Some(r[1]), Some(r[2]), ev)
              res2 == BootAnimationAnimateTo(A2, E2, now, t[1], t[2], d, p, s, Some(sd),
                                             Some(r[1]), Some(r[2]), ev)
          IN  /\ animators' = [animators EXCEPT ![0] = res.self, ![1] = res2.self]
              /\ last' = [op |-> "animate_to", ret |-> res.ret, raised |-> FALSE,
                          wrote |-> None, ret2 |-> res2.ret, raised2 |-> FALSE,
                          wrote2 |-> None]
              /\ call' = [target_x |-> t[1], target_y |-> t[2], duration |-> d,
                          overshoot_pixels |-> p, start_sprite_anim_at |-> s,
                          sprite_delay |-> Some(sd), sprite_from_index |-> Some(r[1]),
                          sprite_to_index |-> Some(r[2]), eased_value |-> ev,
                          at |-> now, ret |-> res.ret]
              /\ frame_log' = IF s # None THEN << >> ELSE frame_log
    /\ calls' = calls + 1
    /\ UNCHANGED << now, elements, loop_vars >>

\* tick on both animators, at the same clock reading
CopyTick ==
    /\ LET res  == Tick(A, E, now)
           res2 == BootAnimationTick(A2, E2, now)
       IN  /\ animators' = [animators EXCEPT ![0] = res.self, ![1] = res2.self]
           /\ elements' = [elements EXCEPT !["tg"] = res.element, !["tg2"] = res2.element]
           /\ last' = [op |-> "tick", ret |-> res.ret, raised |-> res.raised,
                       wrote |-> res.wrote, ret2 |-> res2.ret, raised2 |-> res2.raised,
                       wrote2 |-> res2.wrote]
           /\ frame_log' = IF res.wrote # None THEN Append(frame_log, Val(res.wrote))
                                              ELSE frame_log
    /\ UNCHANGED << now, call, calls, loop_vars >>

\* cancel on both animators
CopyCancel ==
    /\ animators' = [animators EXCEPT ![0] = Cancel(A), ![1] = BootAnimationCancel(A2)]
    /\ last' = [op |-> "cancel", ret |-> FALSE, raised |-> FALSE, wrote |-> None,
                ret2 |-> FALSE, raised2 |-> FALSE, wrote2 |-> None]
    /\ UNCHANGED << now, elements, call, frame_log, calls, loop_vars >>

CopyNext == SequenceAdvance \/ CopyAnimateTo \/ CopyTick \/ CopyCancel

CopySpec == CopyInit /\ [][CopyNext]_vars

\* C30: the two copies of OvershootAnimator (boot.py and boot_animation.py)
\* are behaviourally identical: driven by the same sequence of animate_to,
\* tick and cancel calls at the same sampled times on entities in the same
\* initial state, they return the same values (and raise in the same calls)
\* and perform the same writes to the entity's x, y and frame slot; their
\* fields agree after every call.
C30_CopiesAgree ==
    /\ E2 = E
    /\ A2 = [A EXCEPT !.element = "tg2"]
    /\ BootAnimationIsAnimating(A2) = IsAnimating(A)
    /\ last.op \in { "animate_to", "tick", "cancel" } =>
           /\ last.ret2 = last.ret
           /\ last.raised2 = last.raised
           /\ last.wrote2 = last.wrote

\* after a second animate_to, a tick of boot_animation.py's copy has written
\* a sprite frame and moved its element away from where the tween started
C30_Witness ==
    /\ calls = 2
    /\ last.op = "tick" /\ last.ret2 /\ ~last.raised2
    /\ last.wrote2 # None /\ E2.frame = Val(last.wrote2)
    /\ A2.pos_animating
    /\ << E2.x, E2.y >> # << A2.start_x, A2.start_y >>

====
